---- MODULE Spec2Model ----
(***************************************************************************)
(* A model of dask_groupby's chunked group-reduction engine                 *)
(* (src/dask_groupby/core.py): label factorization, the per-block           *)
(* reduction, the combine / finalize tree, the three strategies, cohort    *)
(* detection and the two rechunk planners.                                  *)
(*                                                                         *)
(* Arrays are 1-D and are sequences of integers.  Group labels are          *)
(* integers (the test's "a","b","c","f" are 1,2,3,6; the bin test's         *)
(* 1, 1.5, 1.9 are scaled by ten).  Codes are 0-based as in the code.       *)
(***************************************************************************)
EXTENDS Integers, Sequences, FiniteSets, TLC

\* Bounds of the model
MaxLen == 3

\* the longest label array given to the planners and to find_group_cohorts
MaxPlanLen == 4

-----------------------------------------------------------------------------
(* The value domain: floats that matter are NaN and +-inf; None is Python's. *)
INF == 10 ^ 6
NINF == 0 - INF
NaN == INF + 1
None == INF + 2
\* expected_groups=None, as a value of the same type as a label sequence
NoGroups == <<None>>

isnull(x) == x = NaN

\* numpy's ==: NaN equals nothing, itself included
np_eq(a, b) == a # NaN /\ b # NaN /\ a = b

\* A sequence given as [i \in 1..n |-> e] is evaluated once, here, into its
\* elements (TLC would otherwise evaluate e again at every use)
Tup(s) == s \o <<>>

Range(s) == {s[i] : i \in 1..Len(s)}

SetMax(S) == CHOOSE x \in S : \A y \in S : y <= x

RECURSIVE SortedSeq(_)
SortedSeq(S) ==
    IF S = {} THEN <<>>
    ELSE LET m == CHOOSE x \in S : \A y \in S : x <= y
         IN  <<m>> \o SortedSeq(S \ {m})

\* np.unique: ascending, NaN last (NaN is the largest encoded value)
np_unique(s) == SortedSeq(Range(s))

\* np.cumsum
RECURSIVE SeqSum(_)
SeqSum(s) == IF s = <<>> THEN 0 ELSE Head(s) + SeqSum(Tail(s))

np_cumsum(s) == Tup([i \in 1..Len(s) |-> SeqSum(SubSeq(s, 1, i))])

\* the elements of s at the positions where keep holds, in order
RECURSIVE Filter(_, _)
Filter(s, keep) ==
    IF s = <<>> THEN <<>>
    ELSE (IF Head(keep) THEN <<Head(s)>> ELSE <<>>) \o Filter(Tail(s), Tail(keep))

\* the position (1-based) of the first element of s that numpy finds equal to x
FirstIndexOf(s, x) == CHOOSE i \in 1..Len(s) : np_eq(s[i], x) /\ \A j \in 1..(i - 1) : ~np_eq(s[j], x)

\* `label in from_`
np_contains(s, x) == \E i \in 1..Len(s) : np_eq(s[i], x)

-----------------------------------------------------------------------------
(* pandas.factorize: codes in first-seen order, -1 for a missing label *)
\* the uniques found so far, acc, and after them the labels of s that are
\* not missing and not among them, each at its first occurrence
pd_uniques(s, acc) ==
    LET firsts == {i \in 1..Len(s) : /\ ~isnull(s[i])
                                     /\ s[i] \notin Range(acc)
                                     /\ \A j \in 1..(i - 1) : s[j] # s[i]}
        order == SortedSeq(firsts)
    IN  acc \o Tup([k \in 1..Len(order) |-> s[order[k]]])

pd_factorize(s) ==
    LET groups == pd_uniques(s, <<>>)
    IN  [idx    |-> Tup([i \in 1..Len(s) |-> IF isnull(s[i]) THEN -1 ELSE FirstIndexOf(groups, s[i]) - 1]),
         groups |-> groups]

\* np.digitize with right=True: the number of edges < x
np_digitize_right(x, bins) ==
    IF isnull(x) THEN Len(bins) ELSE Cardinality({j \in 1..Len(bins) : bins[j] < x})

\* np.digitize(x, bins) for increasing bins, right=False: the number of edges <= x;
\* NaN sorts after every edge
np_digitize(x, bins) ==
    IF isnull(x) THEN Len(bins) ELSE Cardinality({j \in 1..Len(bins) : bins[j] <= x})

arange(n) == Tup([i \in 1..n |-> i - 1])

full(n, fill_value) == Tup([i \in 1..n |-> fill_value])

-----------------------------------------------------------------------------
(* factorize_ for one 1-D grouping array reduced along its only axis:        *)
(* offset_group is False, size is None.                                      *)
\* a missing label takes code 0, the code of the first group
factorize_no_sentinel(by, expected_groups, isbin) ==
    LET fz == IF isbin
              THEN LET idx == Tup([i \in 1..Len(by) |-> np_digitize(by[i], expected_groups) - 1])
                   IN  [idx |-> idx, groups |-> arange(SetMax(Range(idx)) + 1)]
              ELSE pd_factorize(by)
    IN  [group_idx    |-> Tup([i \in 1..Len(by) |-> IF fz.idx[i] = -1 THEN 0 ELSE fz.idx[i]]),
         groups       |-> fz.groups,
         ngroups      |-> Len(fz.groups),
         nan_sentinel |-> Len(fz.groups) + 1]

factorize_(by, expected_groups, isbin) ==
    LET fz == IF isbin
              THEN LET idx == Tup([i \in 1..Len(by) |-> np_digitize(by[i], expected_groups) - 1])
                   IN  [idx |-> idx, groups |-> arange(SetMax(Range(idx)) + 1)]
              ELSE pd_factorize(by)
        ngroups == Len(fz.groups)
        nan_sentinel == ngroups + 1
    IN  [group_idx    |-> Tup([i \in 1..Len(by) |->
                              IF fz.idx[i] = -1 THEN nan_sentinel ELSE fz.idx[i]]),
         groups       |-> fz.groups,
         ngroups      |-> ngroups,
         nan_sentinel |-> nan_sentinel]

-----------------------------------------------------------------------------
(* numpy_groupies.aggregate(group_idx, array, func=..., size=None,           *)
(* fill_value=...): one output slot per code 0..max(group_idx); a slot no    *)
(* element touches holds fill_value; a nan-kernel drops the NaN elements     *)
(* before grouping, so a slot whose elements are all NaN is untouched too.   *)
kadd(a, b) == IF isnull(a) \/ isnull(b) THEN NaN ELSE a + b
kmin(a, b) == IF isnull(a) \/ isnull(b) THEN NaN ELSE IF a <= b THEN a ELSE b
kmax(a, b) == IF isnull(a) \/ isnull(b) THEN NaN ELSE IF a >= b THEN a ELSE b

RECURSIVE Fold(_, _, _)
Fold(op(_, _), acc, s) == IF s = <<>> THEN acc ELSE Fold(op, op(acc, Head(s)), Tail(s))

RECURSIVE Factorial(_)
Factorial(n) == IF n <= 1 THEN 1 ELSE n * Factorial(n - 1)

\* Results of a mean are carried multiplied by MeanScale, which every group
\* size divides, so the division is exact.
MeanScale == Factorial(MaxLen)

\* sum / count in floating point: anything NaN gives NaN, 0/0 gives NaN
truediv(s, c) ==
    IF isnull(s) \/ isnull(c) THEN NaN
    ELSE IF c = 0 THEN (IF s = 0 THEN NaN ELSE IF s > 0 THEN INF ELSE NINF)
    ELSE (s * MeanScale) \div c

NanKernels == {"nansum", "nanlen", "nanmin", "nanmax", "nanmean"}

BaseKernel(func) ==
    CASE func \in {"sum", "nansum"}   -> "sum"
      [] func \in {"len", "nanlen"}   -> "len"
      [] func \in {"min", "nanmin"}   -> "min"
      [] func \in {"max", "nanmax"}   -> "max"
      [] func \in {"mean", "nanmean"} -> "mean"
      [] OTHER                        -> func

npg_kernel(func, xs, fill_value) ==
    LET ys == IF func \in NanKernels
              THEN Filter(xs, Tup([i \in 1..Len(xs) |-> ~isnull(xs[i])]))
              ELSE xs
        base == BaseKernel(func)
    IN  IF ys = <<>> THEN fill_value
        ELSE CASE base = "sum"   -> Fold(kadd, 0, ys)
               [] base = "len"   -> Len(ys)
               [] base = "min"   -> Fold(kmin, Head(ys), Tail(ys))
               [] base = "max"   -> Fold(kmax, Head(ys), Tail(ys))
               [] base = "mean"  -> truediv(Fold(kadd, 0, ys), Len(ys))
               [] base = "first" -> Head(ys)
               [] base = "last"  -> ys[Len(ys)]

ArgKernels == {"argmax", "argmin"}

\* argmax / argmin: the position in array (0-based) of the first element of
\* the group that equals the group's max / min; fill_value when there is
\* none (no element, or a NaN in the group: nothing equals NaN)
npg_argkernel(func, group_idx, array, code, fill_value) ==
    LET at == {i \in 1..Len(array) : group_idx[i] = code}
        best == npg_kernel(IF func = "argmax" THEN "max" ELSE "min",
                           Filter(array, Tup([i \in 1..Len(array) |-> i \in at])), fill_value)
        is_max == {i \in at : np_eq(array[i], best)}
    IN  IF is_max = {} THEN fill_value
        ELSE (CHOOSE i \in is_max : \A j \in is_max : i <= j) - 1

npg_aggregate(group_idx, array, func, fill_value) ==
    LET size == SetMax(Range(group_idx)) + 1
    IN  Tup([k \in 1..size |->
            IF func \in ArgKernels
            THEN npg_argkernel(func, group_idx, array, k - 1, fill_value)
            ELSE npg_kernel(func,
                            Filter(array, Tup([i \in 1..Len(array) |-> group_idx[i] = k - 1])),
                            fill_value)])

-----------------------------------------------------------------------------
(* reindex_ along the last axis.  reindex_error is the exception it raises   *)
(* ("ok": none); reindex_ is the array it returns when it raises nothing.    *)
reindex_idx(from_, to) ==
    Tup([j \in 1..Len(to) |-> IF np_contains(from_, to[j]) THEN FirstIndexOf(from_, to[j]) - 1 ELSE -1])

reindex_trivial(from_, to) ==
    Len(from_) = Len(to) /\ \A i \in 1..Len(to) : np_eq(from_[i], to[i])

reindex_error(array, from_, to, fill_value) ==
    IF reindex_trivial(from_, to) THEN "ok"
    ELSE IF Len(array) = 0 THEN "ok"
    \* idx = np.array([]) is a float array: numpy refuses it as an index
    ELSE IF Len(to) = 0 THEN "IndexError"
    ELSE IF (\E j \in 1..Len(to) : reindex_idx(from_, to)[j] = -1) /\ fill_value = None
         THEN "ValueError"
    ELSE "ok"

reindex_(array, from_, to, fill_value) ==
    IF reindex_trivial(from_, to) THEN array
    ELSE IF Len(array) = 0
         \* np.full(..., None, dtype=float) is an array of NaN
         THEN full(Len(to), IF fill_value = None THEN NaN ELSE fill_value)
    ELSE LET idx == reindex_idx(from_, to)
         IN  Tup([j \in 1..Len(to) |-> IF idx[j] = -1 THEN fill_value ELSE array[idx[j] + 1]])

-----------------------------------------------------------------------------
(* chunk_reduce on one 1-D block: the per-block reduction, also used by the  *)
(* combine step on concatenated intermediates.  func and fill_value are      *)
(* sequences of the same length; the result is an IntermediateResult.        *)
\* lines 495-554: chunk_reduce once by is factorized into f
chunk_reduce_factorized(array, by, func, expected_groups, fill_value, reindex, f) ==
    LET mask == Tup([i \in 1..Len(by) |-> f.group_idx[i] # f.nan_sentinel])
        empty == (\A i \in 1..Len(by) : f.group_idx[i] = f.nan_sentinel) \/ Len(by) = 0
        do_reindex == reindex /\ expected_groups # NoGroups
        \* np.argsort(groups), 0-based
        sortidx == Tup([j \in 1..Len(f.groups) |->
                           FirstIndexOf(f.groups, SortedSeq(Range(f.groups))[j]) - 1])
        groups == IF do_reindex THEN expected_groups
                  ELSE IF empty THEN <<NaN>>
                  ELSE SortedSeq(Range(f.groups))
        \* remove NaN group label which should be last
        strip(r0) == IF \E i \in 1..Len(by) : ~mask[i] THEN SubSeq(r0, 1, Len(r0) - 1) ELSE r0
        one(k) ==
            IF empty THEN full(Len(groups), fill_value[k])
            ELSE IF do_reindex
                 THEN reindex_(strip(npg_aggregate(f.group_idx, array, func[k], fill_value[k])),
                               f.groups, expected_groups, fill_value[k])
                 ELSE Tup([j \in 1..Len(sortidx) |->
                              strip(npg_aggregate(f.group_idx, array, func[k], fill_value[k]))[sortidx[j] + 1]])
    IN  [groups |-> groups, intermediates |-> Tup([k \in 1..Len(func) |-> one(k)])]

chunk_reduce(array, by, func, expected_groups, fill_value, reindex, isbin) ==
    chunk_reduce_factorized(array, by, func, expected_groups, fill_value, reindex,
                            factorize_(by, expected_groups, isbin))

\* line 549: result.reshape(final_array_shape) raises when a channel is not
\* as long as the groups ("ok": no exception); results is what chunk_reduce
\* has computed up to there
chunk_reduce_error(results) ==
    IF \E k \in 1..Len(results.intermediates) : Len(results.intermediates[k]) # Len(results.groups)
    THEN "ValueError"
    ELSE "ok"

\* the exception of the chunk step on some block, if any
chunk_stage_error(applied) ==
    IF \E b \in 1..Len(applied) : chunk_reduce_error(applied[b]) # "ok" THEN "ValueError" ELSE "ok"

\* lines 388-396: unless every group is NaN, the positions found in the
\* block become the positions idx holds there
remap_positions(results, idx) ==
    IF \A j \in 1..Len(results.groups) : isnull(results.groups[j])
    THEN results
    ELSE [results EXCEPT !.intermediates[2] = Tup([j \in 1..Len(@) |-> idx[@[j] + 1]])]

\* the positions found in the block are left as they are
chunk_argreduce_unmapped(array, idx, by, func, fill_value, isbin) ==
    chunk_reduce(array, by, func, NoGroups, fill_value, FALSE, isbin)

\* chunk_argreduce on one block and the positions idx of its elements in
\* the whole array: func[2] is the arg kernel
chunk_argreduce(array, idx, by, func, fill_value, isbin) ==
    remap_positions(chunk_reduce(array, by, func, NoGroups, fill_value, FALSE, isbin), idx)

\* lines 398-402: with reindex and expected_groups the positions, and only
\* they, are reindexed to expected_groups
argreduce_reindex(results, expected_groups, reindex) ==
    IF reindex /\ expected_groups # NoGroups
    THEN [results EXCEPT !.intermediates[2] = reindex_(@, results.groups, expected_groups, 0)]
    ELSE results

\* chunk_argreduce with its expected_groups and reindex arguments
chunk_argreduce_reindex(array, idx, by, func, expected_groups, fill_value, reindex, isbin) ==
    argreduce_reindex(chunk_argreduce(array, idx, by, func, fill_value, isbin),
                      expected_groups, reindex)

-----------------------------------------------------------------------------
(* The catalog of named aggregations (dask_groupby/aggregations.py).         *)
Aggregation(name, chunk, combine, finalize, inter, final) ==
    [name |-> name, chunk |-> chunk, combine |-> combine, finalize |-> finalize,
     fill_intermediate |-> inter, fill_final |-> final, reduction_type |-> "reduce"]

KnownReductions ==
    {"sum", "nansum", "count", "min", "nanmin", "max", "nanmax", "mean", "nanmean",
     "argmax", "argmin"}

\* an arg-reduction: the value and the position that goes with it
ArgAggregation(name, chunk, inter, final) ==
    [Aggregation(name, chunk, chunk, "pick_second", inter, final)
        EXCEPT !.reduction_type = "argreduce"]

aggregations(func) ==
    CASE func = "sum"     -> Aggregation("sum", <<"sum">>, <<"sum">>, "none", <<0>>, 0)
      [] func = "nansum"  -> Aggregation("nansum", <<"nansum">>, <<"sum">>, "none", <<0>>, 0)
      [] func = "count"   -> Aggregation("count", <<"nanlen">>, <<"sum">>, "none", <<0>>, 0)
      [] func = "min"     -> Aggregation("min", <<"min">>, <<"min">>, "none", <<INF>>, NaN)
      [] func = "nanmin"  -> Aggregation("nanmin", <<"nanmin">>, <<"min">>, "none", <<INF>>, NaN)
      [] func = "max"     -> Aggregation("max", <<"max">>, <<"max">>, "none", <<NINF>>, NaN)
      [] func = "nanmax"  -> Aggregation("nanmax", <<"nanmax">>, <<"max">>, "none", <<NINF>>, NaN)
      [] func = "mean"    -> Aggregation("mean", <<"sum", "nanlen">>, <<"sum", "sum">>, "mean", <<0, 0>>, NaN)
      [] func = "nanmean" -> Aggregation("nanmean", <<"nansum", "nanlen">>, <<"sum", "sum">>, "mean", <<0, 0>>, NaN)
      [] func = "argmax"  -> ArgAggregation("argmax", <<"max", "argmax">>, <<NINF, 0>>, -1)
      [] func = "argmin"  -> ArgAggregation("argmin", <<"min", "argmin">>, <<INF, 0>>, -1)

\* agg.finalize(*intermediates): mean = sum / count; an arg-reduction picks
\* the positions
agg_finalize(agg, intermediates) ==
    IF agg.finalize = "pick_second" THEN intermediates[2]
    ELSE Tup([j \in 1..Len(intermediates[1]) |-> truediv(intermediates[1][j], intermediates[2][j])])

-----------------------------------------------------------------------------
(* _npg_combine: merge a list of intermediate results into one.              *)
RECURSIVE Concat(_)
Concat(ss) == IF ss = <<>> THEN <<>> ELSE Head(ss) \o Concat(Tail(ss))

\* the groups of the first intermediate only
first_chunk_groups(x_chunk) == x_chunk[1].groups

combine_unique_groups(x_chunk) == np_unique(Concat(Tup([b \in 1..Len(x_chunk) |-> x_chunk[b].groups])))

\* a group the intermediate lacks is filled with the final fill value
reindex_intermediates_final_fill(x, unique_groups, agg) ==
    [groups        |-> unique_groups,
     intermediates |-> Tup([k \in 1..Len(x.intermediates) |->
                           reindex_(x.intermediates[k], x.groups, unique_groups, agg.fill_final)])]

reindex_intermediates(x, unique_groups, agg) ==
    [groups        |-> unique_groups,
     intermediates |-> Tup([k \in 1..Len(x.intermediates) |->
                           reindex_(x.intermediates[k], x.groups, unique_groups,
                                    agg.fill_intermediate[k])])]

\* lines 672-687: the groups, and channel k, of all the intermediates
concat_groups(xs) == Concat(Tup([b \in 1..Len(xs) |-> xs[b].groups]))

concat_channel(xs, k) == Concat(Tup([b \in 1..Len(xs) |-> xs[b].intermediates[k]]))

\* lines 729-750: every channel reduced once more with its combine kernel
reduce_channels(xs, agg) ==
    Tup([k \in 1..Len(agg.combine) |->
            chunk_reduce(concat_channel(xs, k), concat_groups(xs), <<agg.combine[k]>>, NoGroups,
                         <<agg.fill_intermediate[k]>>, FALSE, FALSE)])

\* lines 728 and 750-751: the channels side by side, the groups of the last
collect_channels(rs) ==
    [groups        |-> rs[Len(rs)].groups,
     intermediates |-> Tup([k \in 1..Len(rs) |-> rs[k].intermediates[1]])]

\* the first channel holds the finalized values
finalized_channels(r, agg) ==
    IF agg.finalize = "mean"
    THEN [r EXCEPT !.intermediates[1] = agg_finalize(agg, r.intermediates)]
    ELSE r

\* a combine that finalizes what it has combined
combine_finalized(xs, agg) ==
    finalized_channels(collect_channels(reduce_channels(xs, agg)), agg)

\* lines 727-751: the intermediates, reindexed to the same groups, are
\* concatenated and reduced once more, channel by channel
combine_reindexed(xs, agg) ==
    collect_channels(reduce_channels(xs, agg))

\* lines 711-724: the counts, when they are tracked, are summed by themselves
append_counts(results, tracked, counts) ==
    IF tracked THEN [results EXCEPT !.intermediates = Append(@, counts.intermediates[1])]
    ELSE results

\* lines 689-724: the values and the positions are reduced together
combine_argreduce(xs, agg) ==
    append_counts(chunk_argreduce(concat_channel(xs, 1), concat_channel(xs, 2), concat_groups(xs),
                                  SubSeq(agg.combine, 1, 2), SubSeq(agg.fill_intermediate, 1, 2),
                                  FALSE),
                  agg.chunk[Len(agg.chunk)] = "nanlen",
                  chunk_reduce(concat_channel(xs, 3), concat_groups(xs), <<"sum">>, NoGroups,
                               <<0>>, FALSE, FALSE))

\* line 680: every intermediate reindexed to the union of the groups
reindex_all(x_chunk, agg) ==
    Tup([b \in 1..Len(x_chunk) |->
            reindex_intermediates(x_chunk[b], combine_unique_groups(x_chunk), agg)])

\* lines 689 and 726: the branch of the reduction type
combine_by_type(xs, agg) ==
    IF agg.reduction_type = "argreduce" THEN combine_argreduce(xs, agg)
    ELSE combine_reindexed(xs, agg)

_npg_combine(x_chunk, agg) == combine_by_type(reindex_all(x_chunk, agg), agg)

-----------------------------------------------------------------------------
(* _finalize_results.  The result is a record: status "ok" or the exception, *)
(* values (agg.name's array), has_groups (whether the dict has a "groups"    *)
(* key) and groups.                                                          *)
\* np.where(counts > min_count, ...)
np_where_more(counts, min_count, result, fill_value) ==
    Tup([j \in 1..Len(result) |-> IF counts[j] > min_count THEN result[j] ELSE fill_value])

np_where_counts(counts, min_count, result, fill_value) ==
    Tup([j \in 1..Len(result) |-> IF counts[j] >= min_count THEN result[j] ELSE fill_value])

Failed(status) == [status |-> status, values |-> <<>>, has_groups |-> FALSE, groups |-> <<>>]

\* lines 614-621: final reindexing has to be here to be lazy
finalize_reindex(masked, groups, expected_groups, fill_value) ==
    IF expected_groups = NoGroups
    THEN [status |-> "ok", values |-> masked, has_groups |-> FALSE, groups |-> <<>>]
    ELSE IF reindex_error(masked, groups, expected_groups, fill_value) # "ok"
         THEN Failed(reindex_error(masked, groups, expected_groups, fill_value))
    ELSE [status |-> "ok",
          values |-> reindex_(masked, groups, expected_groups, fill_value),
          has_groups |-> TRUE, groups |-> expected_groups]

\* lines 596-598 and 603-605: the last intermediate is taken off as counts
counts_taken(agg, fill_value, min_count) ==
    IF agg.finalize = "none" THEN min_count # None ELSE fill_value # None

\* lines 600-601 and 611: np.where(counts >= min_count, ...) reads counts
counts_read(agg, min_count) == agg.finalize # "none" \/ min_count # None

\* squeezed["intermediates"] as lines 599 and 610 find it
finalize_inputs(results, agg, fill_value, min_count) ==
    IF counts_taken(agg, fill_value, min_count)
    THEN SubSeq(results.intermediates, 1, Len(results.intermediates) - 1)
    ELSE results.intermediates

_finalize_results(results, agg, expected_groups, fill_value, min_count) ==
    LET n == Len(results.intermediates)
        counts == results.intermediates[n]
        inter == finalize_inputs(results, agg, fill_value, min_count)
        mc == IF agg.finalize # "none" /\ min_count = None THEN 1 ELSE min_count
        raw == IF agg.finalize = "none" THEN inter[1] ELSE agg_finalize(agg, inter)
    IN  \* counts is read without having been assigned
        IF counts_read(agg, min_count) /\ ~counts_taken(agg, fill_value, min_count)
        THEN Failed("UnboundLocalError")
        ELSE finalize_reindex(IF ~counts_read(agg, min_count) THEN raw
                              ELSE np_where_counts(counts, mc, raw, fill_value),
                              results.groups, expected_groups, fill_value)

\* _npg_aggregate: the final step of the tree reduction
_npg_aggregate(x_chunk, agg, expected_groups, fill_value, min_count) ==
    _finalize_results(_npg_combine(x_chunk, agg), agg, expected_groups, fill_value, min_count)

-----------------------------------------------------------------------------
(* Blocks of a chunked 1-D array.                                            *)
block_start(chunks, b) == SeqSum(SubSeq(chunks, 1, b - 1)) + 1

block_of(array, chunks, b) ==
    SubSeq(array, block_start(chunks, b), block_start(chunks, b) + chunks[b] - 1)

\* np.repeat(np.arange(len(chunks)), chunks), 0-based block numbers
which_chunk(chunks) ==
    Concat(Tup([b \in 1..Len(chunks) |-> full(chunks[b], b - 1)]))

-----------------------------------------------------------------------------
(* groupby_agg: the dask path for split_out = 1.                             *)

\* the chunk step on block b: chunk_reduce, or chunk_argreduce on the block
\* zipped with the positions of its elements along the axis (agg.preprocess)
chunk_task(array, by, chunks, agg, expected_groups, isbin, b) ==
    IF agg.reduction_type = "argreduce"
    THEN chunk_argreduce(block_of(array, chunks, b), block_of(arange(Len(array)), chunks, b),
                         block_of(by, chunks, b), agg.chunk, agg.fill_intermediate, isbin)
    ELSE chunk_reduce(block_of(array, chunks, b), block_of(by, chunks, b), agg.chunk,
                      IF isbin THEN expected_groups ELSE NoGroups,
                      agg.fill_intermediate, FALSE, isbin)

\* the blockwise chunk step: the chunk reduction on every block
chunk_stage(array, by, chunks, agg, expected_groups, isbin) ==
    Tup([b \in 1..Len(chunks) |-> chunk_task(array, by, chunks, agg, expected_groups, isbin, b)])

\* from this point on, we just work with bin indexes when binning
expected_agg(expected_groups, isbin) ==
    IF isbin THEN arange(Len(expected_groups) - 1) ELSE expected_groups

\* the two outputs taken out of the reduced dict: the values, and the groups,
\* which are expected_groups when known and reduced["groups"] otherwise
extract_results(fin, expected_groups) ==
    IF fin.status # "ok" THEN fin
    ELSE IF expected_groups = NoGroups
         THEN IF fin.has_groups THEN fin ELSE [fin EXCEPT !.status = "KeyError"]
    ELSE [fin EXCEPT !.has_groups = TRUE, !.groups = expected_groups]

\* method="blockwise": the aggregate step on every block by itself, the
\* results side by side
RECURSIVE blockwise_concat(_)
blockwise_concat(fins) ==
    IF fins = <<>> THEN [status |-> "ok", values |-> <<>>, has_groups |-> FALSE, groups |-> <<>>]
    ELSE LET rest == blockwise_concat(Tail(fins))
         IN  IF Head(fins).status # "ok" THEN Head(fins)
             ELSE IF rest.status # "ok" THEN rest
             ELSE [rest EXCEPT !.values = Head(fins).values \o rest.values]

\* lines 876-896 and 909-935: what each aggregate task is given: all the
\* intermediates for the root of the tree, one block for a blockwise task
aggregate_inputs(intermediate, method) ==
    IF method = "mapreduce" THEN <<intermediate>>
    ELSE Tup([b \in 1..Len(intermediate) |-> <<intermediate[b]>>])

\* the aggregate tasks: the tree finalizes against expected_groups, a
\* blockwise task does not reindex
aggregate_tasks(inputs, agg, expected_groups, fill_value, min_count, method) ==
    Tup([b \in 1..Len(inputs) |->
            _npg_aggregate(inputs[b], agg,
                           IF method = "mapreduce" THEN expected_groups ELSE NoGroups,
                           fill_value, min_count)])

\* lines 943-985: the two outputs, of the root or of the blocks side by side
reduced_outputs(fins, expected_groups, method) ==
    extract_results(IF method = "mapreduce" THEN fins[1] ELSE blockwise_concat(fins),
                    expected_groups)

\* lines 876-985 for the intermediates of the chunk step
reduce_intermediate(intermediate, agg, expected_groups, fill_value, min_count, method) ==
    reduced_outputs(aggregate_tasks(aggregate_inputs(intermediate, method), agg,
                                    expected_groups, fill_value, min_count, method),
                    expected_groups, method)

groupby_agg(array, by, chunks, agg, expected_groups, fill_value, min_count, isbin, method, by_is_dask) ==
    IF method \notin {"mapreduce", "blockwise"} THEN Failed("ValueError")
    ELSE IF method = "blockwise" /\ (expected_groups = NoGroups \/ by_is_dask)
    THEN Failed("NotImplementedError")
    ELSE reduce_intermediate(chunk_stage(array, by, chunks, agg, expected_groups, isbin), agg,
                             expected_agg(expected_groups, isbin), fill_value, min_count, method)

-----------------------------------------------------------------------------
(* The rechunk planners.                                                     *)
Abs(x) == IF x < 0 THEN 0 - x ELSE x

Min2(a, b) == IF a <= b THEN a ELSE b

\* s[i] for a 0-based Python index, negative ones counting from the end
py_index(s, i) == IF i < 0 THEN s[Len(s) + i + 1] ELSE s[i + 1]

np_diff(s) == Tup([i \in 1..(Len(s) - 1) |-> s[i + 1] - s[i]])

\* the loop below with a block ending on the last element of a group
\* rather than after it
RECURSIVE optimal_loop_before_last(_, _, _, _, _)
optimal_loop_before_last(k, chunkidx, firstidx, lastidx, newchunkidx) ==
    IF k > Min2(Len(chunkidx), Min2(Len(firstidx), Len(lastidx))) THEN newchunkidx
    ELSE LET c == chunkidx[k]
             f == firstidx[k]
             l == lastidx[k]
             last == newchunkidx[Len(newchunkidx)]
         IN  optimal_loop_before_last(k + 1, chunkidx, firstidx, lastidx,
                 IF c = 0 \/ last > l THEN newchunkidx
                 ELSE IF Abs(c - f) < Abs(c - l) /\ f > last THEN Append(newchunkidx, f)
                 ELSE Append(newchunkidx, l))

\* the loop of _get_optimal_chunks_for_groups over zip(chunkidx, firstidx, lastidx)
RECURSIVE optimal_loop(_, _, _, _, _)
optimal_loop(k, chunkidx, firstidx, lastidx, newchunkidx) ==
    IF k > Min2(Len(chunkidx), Min2(Len(firstidx), Len(lastidx))) THEN newchunkidx
    ELSE LET c == chunkidx[k]
             f == firstidx[k]
             l == lastidx[k]
             df == Abs(c - f)
             dl == Abs(c - l)
             last == newchunkidx[Len(newchunkidx)]
         IN  optimal_loop(k + 1, chunkidx, firstidx, lastidx,
                 IF c = 0 \/ last > l THEN newchunkidx
                 ELSE IF df < dl /\ f > last THEN Append(newchunkidx, f)
                 ELSE Append(newchunkidx, l + 1))

\* line 70: the position of the last element of every block
chunk_ends(chunks) == Tup([i \in 1..Len(chunks) |-> np_cumsum(chunks)[i] - 1])

\* line 72: what are the groups at chunk boundaries
labels_at(labels, chunkidx) ==
    np_unique(Tup([i \in 1..Len(chunkidx) |-> py_index(labels, chunkidx[i])]))

\* lines 74-76 and 81-82: the first or the last index of the groups bounds
indexes_of(labels, bounds, func) ==
    Tup([i \in 1..Len(bounds) |->
            npg_aggregate(labels, arange(Len(labels)), func, 0)[bounds[i] + 1]])

\* lines 94-96: the end of the array closes the last block
close_chunks(newchunkidx, chunkidx) ==
    np_diff(IF newchunkidx[Len(newchunkidx)] # chunkidx[Len(chunkidx)] + 1
            THEN Append(newchunkidx, chunkidx[Len(chunkidx)] + 1)
            ELSE newchunkidx)

\* lines 78-96
chunks_between(chunks, chunkidx, firstidx, lastidx) ==
    IF Len(chunkidx) = Len(lastidx) /\ \A i \in 1..Len(chunkidx) : chunkidx[i] = lastidx[i]
    THEN chunks
    ELSE close_chunks(optimal_loop(1, chunkidx, firstidx, lastidx, <<0>>), chunkidx)

\* lines 74-82: the first and the last index of the groups at the bounds
chunks_for_bounds(chunks, labels, chunkidx, bounds) ==
    chunks_between(chunks, chunkidx, indexes_of(labels, bounds, "first"),
                   indexes_of(labels, bounds, "last"))

\* line 72
chunks_for_ends(chunks, labels, chunkidx) ==
    chunks_for_bounds(chunks, labels, chunkidx, labels_at(labels, chunkidx))

\* labels are the 0-based codes factorize_ gives
_get_optimal_chunks_for_groups(chunks, labels) ==
    chunks_for_ends(chunks, labels, chunk_ends(chunks))

\* rechunk_for_blockwise: the chunks of the array it returns
rechunk_for_blockwise(chunks, labels) ==
    _get_optimal_chunks_for_groups(chunks, factorize_(labels, NoGroups, FALSE).group_idx)

RECURSIVE SortNums(_)
SortNums(s) ==
    IF s = <<>> THEN <<>>
    ELSE LET i == CHOOSE i \in 1..Len(s) : \A j \in 1..Len(s) : s[i] <= s[j]
         IN  <<s[i]>> \o SortNums(SubSeq(s, 1, i - 1) \o SubSeq(s, i + 1, Len(s)))

\* np.median(chunks).astype(int)
np_median_int(chunks) ==
    LET srt == SortNums(chunks)
        n == Len(chunks)
    IN  IF n % 2 = 1 THEN srt[(n + 1) \div 2]
        ELSE (srt[n \div 2] + srt[n \div 2 + 1]) \div 2

\* the loop below with an old boundary kept only when no forcing label is close
RECURSIVE cohorts_loop_close_first(_, _, _, _, _, _, _)
cohorts_loop_close_first(idx, labels, force_new_chunk_at, oldbreaks, chunksize, divisions, counter) ==
    IF idx >= Len(labels) THEN divisions
    ELSE LET lab == labels[idx + 1]
             forced == np_contains(force_new_chunk_at, lab)
             next_break == {d \in 0..(Len(labels) - 1 - idx) :
                               np_contains(force_new_chunk_at, labels[idx + d + 1])}
             next_break_is_close ==
                 IF \E d \in next_break : d # 0
                 THEN (CHOOSE d \in next_break : \A e \in next_break : d <= e) <= chunksize \div 2
                 ELSE FALSE
             cut == forced \/ ((idx \in Range(oldbreaks) \/ counter >= chunksize)
                                 /\ ~next_break_is_close)
         IN  cohorts_loop_close_first(idx + 1, labels, force_new_chunk_at, oldbreaks, chunksize,
                                      IF cut THEN Append(divisions, idx) ELSE divisions,
                                      IF cut THEN 1 ELSE counter + 1)

\* the loop below with a forcing label close when it is at most chunksize ahead
RECURSIVE cohorts_loop_close_is_chunksize(_, _, _, _, _, _, _)
cohorts_loop_close_is_chunksize(idx, labels, force_new_chunk_at, oldbreaks, chunksize, divisions, counter) ==
    IF idx >= Len(labels) THEN divisions
    ELSE LET lab == labels[idx + 1]
             forced == np_contains(force_new_chunk_at, lab)
             next_break == {d \in 0..(Len(labels) - 1 - idx) :
                               np_contains(force_new_chunk_at, labels[idx + d + 1])}
             next_break_is_close ==
                 IF \E d \in next_break : d # 0
                 THEN (CHOOSE d \in next_break : \A e \in next_break : d <= e) <= chunksize
                 ELSE FALSE
             cut == forced \/ idx \in Range(oldbreaks)
                           \/ (counter >= chunksize /\ ~next_break_is_close)
         IN  cohorts_loop_close_is_chunksize(idx + 1, labels, force_new_chunk_at, oldbreaks, chunksize,
                                             IF cut THEN Append(divisions, idx) ELSE divisions,
                                             IF cut THEN 1 ELSE counter + 1)

\* the loop of rechunk_for_cohorts over enumerate(labels); idx is 0-based
RECURSIVE cohorts_loop(_, _, _, _, _, _, _)
cohorts_loop(idx, labels, force_new_chunk_at, oldbreaks, chunksize, divisions, counter) ==
    IF idx >= Len(labels) THEN divisions
    ELSE LET lab == labels[idx + 1]
             forced == np_contains(force_new_chunk_at, lab)
             \* np.nonzero(isbreak[idx:])[0]: the offsets of the forcing labels ahead
             next_break == {d \in 0..(Len(labels) - 1 - idx) :
                               np_contains(force_new_chunk_at, labels[idx + d + 1])}
             next_break_is_close ==
                 IF \E d \in next_break : d # 0
                 THEN (CHOOSE d \in next_break : \A e \in next_break : d <= e) <= chunksize \div 2
                 ELSE FALSE
             cut == forced \/ idx \in Range(oldbreaks)
                           \/ (counter >= chunksize /\ ~next_break_is_close)
         IN  cohorts_loop(idx + 1, labels, force_new_chunk_at, oldbreaks, chunksize,
                          IF cut THEN Append(divisions, idx) ELSE divisions,
                          IF cut THEN 1 ELSE counter + 1)

\* rechunk_for_cohorts: the exception it raises ("ok": none) and newchunks
rechunk_for_cohorts_error(chunks, labels, force_new_chunk_at) ==
    IF Len(labels) # SeqSum(chunks) THEN "ValueError"
    ELSE IF ~\E i \in 1..Len(labels) : np_contains(force_new_chunk_at, labels[i]) THEN "ValueError"
    ELSE "ok"

\* rechunk_for_cohorts without the division at len(labels)
rechunk_for_cohorts_open_end(chunks, labels, force_new_chunk_at, chunksize) ==
    LET size == IF chunksize = None THEN np_median_int(chunks) ELSE chunksize
        oldbreaks == <<0>> \o np_cumsum(chunks)
    IN  np_diff(cohorts_loop(0, labels, force_new_chunk_at, oldbreaks, size, <<>>, 1))

rechunk_for_cohorts(chunks, labels, force_new_chunk_at, chunksize) ==
    LET size == IF chunksize = None THEN np_median_int(chunks) ELSE chunksize
        oldbreaks == <<0>> \o np_cumsum(chunks)
        divisions == cohorts_loop(0, labels, force_new_chunk_at, oldbreaks, size, <<>>, 1)
    IN  np_diff(Append(divisions, Len(labels)))

-----------------------------------------------------------------------------
(* find_group_cohorts.  A cohort is a sequence of labels; the result is the  *)
(* sequence of the dict's values, in the dict's insertion order.             *)

\* label_chunks[lab]: the blocks where lab is present, as a set
label_chunks(labels, chunks, lab) ==
    {which_chunk(chunks)[i] : i \in {i \in 1..Len(labels) : np_eq(labels[i], lab)}}

\* tlz.groupby(label_chunks.get, label_chunks.keys()): items (key, labels) in
\* the order the keys are first met
RECURSIVE tlz_groupby(_, _, _, _)
tlz_groupby(labs, labels, chunks, items) ==
    IF labs = <<>> THEN items
    ELSE LET key == label_chunks(labels, chunks, Head(labs))
             at == {i \in 1..Len(items) : items[i].key = key}
         IN  tlz_groupby(Tail(labs), labels, chunks,
                 IF at = {} THEN Append(items, [key |-> key, cohort |-> <<Head(labs)>>])
                 ELSE LET i == CHOOSE i \in at : TRUE
                      IN  [items EXCEPT ![i].cohort = Append(@, Head(labs))])

\* the merge of cohort idx with the later cohorts whose keys are subsets
RECURSIVE merge_inner(_, _, _, _)
merge_inner(items, idx, j, acc) ==
    IF j > Len(items) THEN acc
    ELSE IF items[j].key \in acc.merged_keys THEN merge_inner(items, idx, j + 1, acc)
    ELSE IF items[j].key \subseteq items[idx].key
         THEN merge_inner(items, idx, j + 1,
                  [cohort |-> acc.cohort \o items[j].cohort,
                   merged_keys |-> acc.merged_keys \cup {items[j].key}])
    ELSE merge_inner(items, idx, j + 1, acc)

RECURSIVE merge_outer(_, _, _, _)
merge_outer(items, idx, merged_keys, merged_cohorts) ==
    IF idx > Len(items) THEN merged_cohorts
    ELSE IF items[idx].key \in merged_keys
         THEN merge_outer(items, idx + 1, merged_keys, merged_cohorts)
    ELSE LET acc == merge_inner(items, idx, idx + 1,
                                [cohort |-> items[idx].cohort, merged_keys |-> merged_keys])
         IN  merge_outer(items, idx + 1, acc.merged_keys, Append(merged_cohorts, acc.cohort))

find_group_cohorts(labels, chunks, merge) ==
    LET items == tlz_groupby(np_unique(labels), labels, chunks, <<>>)
    IN  IF merge THEN merge_outer(items, 1, {}, <<>>)
        ELSE Tup([i \in 1..Len(items) |-> items[i].cohort])


-----------------------------------------------------------------------------
(* groupby_reduce.  A call is a record:                                      *)
(*   array, by        the data and the labels (1-D, same length)             *)
(*   chunks           the blocks of a dask array; <<>> for a numpy array     *)
(*   by_is_dask       whether by is chunked too (like array)                 *)
(*   func, skipna, expected_groups, isbin, fill_value, min_count, method     *)
(* skipna=None behaves as True on float data (line 1083) and is not          *)
(* modelled apart.                                                           *)

\* f"nan{func}"
nan_name(func) ==
    CASE func = "sum" -> "nansum" [] func = "min" -> "nanmin" [] func = "max" -> "nanmax"
      [] func = "mean" -> "nanmean" [] OTHER -> func

has_nan_in_name(func) == func \in {"nansum", "nanmin", "nanmax", "nanmean", "nanprod"}

\* no check of the shapes
aligned_unchecked(c) == TRUE

\* array.shape[-by.ndim :] == by.shape, for 1-D arrays
aligned(c) == Len(c.array) = Len(c.by)

\* lines 1068-1149: the checks and the resolution of func, expected_groups,
\* the descriptor and fill_value
resolve_call(c) ==
    LET func1 == IF c.skipna /\ ~has_nan_in_name(c.func) /\ c.func # "count"
                 THEN nan_name(c.func) ELSE c.func
        expected == IF c.expected_groups = NoGroups /\ ~c.by_is_dask
                    THEN np_unique(Filter(c.by, Tup([i \in 1..Len(c.by) |-> ~isnull(c.by[i])])))
                    ELSE c.expected_groups
        reduction == aggregations(func1)
        fill0 == IF c.fill_value = None THEN reduction.fill_final ELSE c.fill_value
        status == IF ~aligned(c) THEN "ValueError"
                  ELSE IF c.skipna /\ c.func = "count" THEN "ValueError"
                  ELSE IF c.min_count # None /\ c.min_count > 1 /\ func1 \notin {"nansum", "nanprod"}
                       THEN "ValueError"
                  ELSE IF func1 \notin KnownReductions THEN "NotImplementedError"
                  ELSE IF c.min_count # None /\ func1 \notin {"nansum", "nanprod"}
                       THEN "AssertionError"
                  ELSE "ok"
    IN  [status          |-> status,
         func            |-> func1,
         expected_groups |-> expected,
         reduction       |-> reduction,
         fill_value      |-> IF c.min_count # None THEN NaN ELSE fill0]

\* lines 1152-1206: the pure numpy path
numpy_reduce(c, r) ==
    LET func0 == IF r.reduction.name = "count" THEN "nanlen" ELSE r.reduction.name
        append_nanlen == c.min_count # None
        results == chunk_reduce(c.array, c.by,
                                IF append_nanlen THEN <<func0, "nanlen">> ELSE <<func0>>,
                                IF c.isbin THEN r.expected_groups ELSE NoGroups,
                                IF append_nanlen THEN <<r.fill_value, 0>> ELSE <<r.fill_value>>,
                                FALSE, c.isbin)
    IN  _finalize_results(results, [r.reduction EXCEPT !.finalize = "none"],
                          expected_agg(r.expected_groups, c.isbin), r.fill_value, c.min_count)

\* lines 1212-1216: we need to explicitly track counts so that we can mask at the end
track_counts(reduction, fill_value, min_count) ==
    IF fill_value # None \/ min_count # None
    THEN [reduction EXCEPT !.chunk = Append(@, "nanlen"),
                           !.combine = Append(@, "sum"),
                           !.fill_intermediate = Append(@, 0)]
    ELSE reduction

\* array[..., subset_idx] and by[subset_idx] for one cohort: the blocks that
\* hold none of its elements disappear; an empty selection is one empty block
cohort_keep(by, cohort) == Tup([i \in 1..Len(by) |-> \E j \in 1..Len(cohort) : np_eq(by[i], cohort[j])])

cohort_chunks(by, chunks, cohort) ==
    LET keep == cohort_keep(by, cohort)
        sizes == Tup([b \in 1..Len(chunks) |-> Len(Filter(block_of(by, chunks, b), block_of(keep, chunks, b)))])
        kept == Filter(sizes, Tup([b \in 1..Len(sizes) |-> sizes[b] > 0]))
    IN  IF kept = <<>> THEN <<0>> ELSE kept

\* lines 1229-1258: method="cohorts"
RECURSIVE cohorts_concat(_)
cohorts_concat(rs) ==
    IF rs = <<>> THEN [status |-> "ok", values |-> <<>>, has_groups |-> TRUE, groups |-> <<>>]
    ELSE LET rest == cohorts_concat(Tail(rs))
         IN  IF Head(rs).status # "ok" THEN Head(rs)
             ELSE IF rest.status # "ok" THEN rest
             ELSE [rest EXCEPT !.values = Head(rs).values \o rest.values,
                               !.groups = Head(rs).groups \o rest.groups]

\* lines 1238-1254: what groupby_agg is given for one cohort: the elements
\* of its groups, the cohort as expected_groups
cohort_subset(c, cohort) ==
    [array           |-> Filter(c.array, cohort_keep(c.by, cohort)),
     by              |-> Filter(c.by, cohort_keep(c.by, cohort)),
     chunks          |-> cohort_chunks(c.by, c.chunks, cohort),
     expected_groups |-> cohort,
     \* if only a single block along axis, we can just work blockwise
     method          |-> IF Len(cohort_chunks(c.by, c.chunks, cohort)) = 1
                         THEN "blockwise" ELSE "mapreduce",
     by_is_dask      |-> FALSE]

cohort_subsets(c, cohorts) == Tup([k \in 1..Len(cohorts) |-> cohort_subset(c, cohorts[k])])

\* lines 1260-1275: what groupby_agg is given otherwise: the whole array,
\* rechunked for method="blockwise"
whole_array(c, r) ==
    [array           |-> c.array,
     by              |-> c.by,
     chunks          |-> IF c.method = "blockwise" THEN rechunk_for_blockwise(c.chunks, c.by)
                         ELSE c.chunks,
     expected_groups |-> r.expected_groups,
     method          |-> c.method,
     by_is_dask      |-> c.by_is_dask]

\* lines 1229-1275: one call of groupby_agg for every cohort, or one for
\* the whole array
agg_inputs(c, r) ==
    IF c.method = "cohorts" THEN cohort_subsets(c, find_group_cohorts(c.by, c.chunks, TRUE))
    ELSE <<whole_array(c, r)>>

\* lines 1243-1254 and 1270-1275: partial_agg on each of them
agg_calls(c, r, agg, inputs) ==
    Tup([k \in 1..Len(inputs) |->
            groupby_agg(inputs[k].array, inputs[k].by, inputs[k].chunks, agg,
                        inputs[k].expected_groups, r.fill_value, c.min_count, c.isbin,
                        inputs[k].method, inputs[k].by_is_dask)])

\* lines 1256-1258: the results of the cohorts are concatenated
agg_outputs(c, rs) == IF c.method = "cohorts" THEN cohorts_concat(rs) ELSE rs[1]

\* the descriptor the dask path works with
call_agg(c) == track_counts(resolve_call(c).reduction, resolve_call(c).fill_value, c.min_count)

\* lines 1152-1275 for the resolved call r and the descriptor agg
reduce_resolved(c, r, agg) ==
    IF r.status # "ok" THEN Failed(r.status)
    ELSE IF c.chunks = <<>> /\ ~c.by_is_dask THEN numpy_reduce(c, r)
    ELSE agg_outputs(c, agg_calls(c, r, agg, agg_inputs(c, r)))

groupby_reduce(c) == reduce_resolved(c, resolve_call(c), call_agg(c))

-----------------------------------------------------------------------------
(* The state: one call of groupby_reduce and the task graph it runs.         *)
VARIABLES
    call,      \* the arguments of the call
    pc,        \* "start", "chunked" (the chunk stage has run), "done"
    inter,     \* the intermediate results still to be combined, left to right
    cover,     \* cover[k]: the first and last element of the array inter[k] covers
    result     \* what the call returns, once done

vars == <<call, pc, inter, cover, result>>

NoResult == Failed("pending")


(* The arguments the model explores *)
RECURSIVE SeqsOfLen(_, _)
SeqsOfLen(S, n) ==
    IF n = 0 THEN {<<>>} ELSE {Append(s, x) : s \in SeqsOfLen(S, n - 1), x \in S}

\* every way to cut n elements into blocks of at least one element
RECURSIVE Chunkings(_)
Chunkings(n) ==
    IF n = 0 THEN {<<>>}
    ELSE UNION {{<<k>> \o rest : rest \in Chunkings(n - k)} : k \in 1..n}

LabelVals == {1, 2, NaN}

\* the data: element i is 2^(i-1), so that a sum tells which elements went
\* into it, or NaN at the positions S
Array(n, S) == Tup([i \in 1..n |-> IF i \in S THEN NaN ELSE 2 ^ (i - 1)])

\* no NaN, the first element NaN, or only NaN
Arrays(n) == {Array(n, S) : S \in {{}, {1}, 1..n}}

\* no NaN, or the first element NaN
FewArrays(n) == {Array(n, S) : S \in {{}, {1}}}

Kernel(func, skipna, min_count) ==
    [func |-> func, skipna |-> skipna, min_count |-> min_count]

MainKernels ==
    {Kernel("sum", FALSE, None), Kernel("sum", TRUE, 2), Kernel("mean", TRUE, None)}

OtherKernels ==
    {Kernel("sum", TRUE, None), Kernel("sum", TRUE, 1), Kernel("count", FALSE, None),
     Kernel("min", FALSE, None), Kernel("max", TRUE, None), Kernel("mean", FALSE, None),
     Kernel("sum", TRUE, 3)}

\* calls groupby_reduce rejects
BadKernels ==
    {Kernel("count", TRUE, None), Kernel("sum", FALSE, 1), Kernel("mean", TRUE, 2)}

MakeCall(array, by, chunks, by_is_dask, k, expected_groups, isbin, fill_value, method) ==
    [array |-> array, by |-> by, chunks |-> chunks, by_is_dask |-> by_is_dask,
     func |-> k.func, skipna |-> k.skipna, min_count |-> k.min_count,
     expected_groups |-> expected_groups, isbin |-> isbin, fill_value |-> fill_value,
     method |-> method]

\* the chunkings of a dask array of n elements, and <<>>: a numpy array
ChunksOrNumpy(n) == Chunkings(n) \cup {<<>>}

\* c is a call of some kernel on some labelling and chunking of n elements
KernelCall(c, n) ==
    \/ \E array \in Arrays(n), by \in SeqsOfLen(LabelVals, n),
          chunks \in ChunksOrNumpy(n), k \in MainKernels :
          c = MakeCall(array, by, chunks, FALSE, k, NoGroups, FALSE, None, "mapreduce")
    \/ \E array \in FewArrays(n), by \in SeqsOfLen(LabelVals, n),
          chunks \in ChunksOrNumpy(n), k \in OtherKernels :
          c = MakeCall(array, by, chunks, FALSE, k, NoGroups, FALSE, None, "mapreduce")
    \/ \E chunks \in ChunksOrNumpy(n), k \in BadKernels :
          c = MakeCall(Array(n, {}), full(n, 1), chunks, FALSE, k, NoGroups, FALSE, None, "mapreduce")

\* by has one label more than the array has elements
MisalignedKernels ==
    {Kernel("sum", FALSE, None), Kernel("sum", FALSE, 1), Kernel("mean", TRUE, None)}

MisalignedCall(c, n) ==
    \E chunks \in ChunksOrNumpy(n), k \in MisalignedKernels :
        c = MakeCall(Array(n, {}), full(n + 1, 1), chunks, FALSE, k, NoGroups, FALSE, None, "mapreduce")

\* interval counts: labels below the first edge, inside an interval, beyond
\* the last edge and NaN, against two or three edges
BinLabelVals == {0, 1, 2, NaN}

BinEdges == {<<1, 2, 3>>, <<1, 2>>}

BinCall(c, n) ==
    \E by \in SeqsOfLen(BinLabelVals, n), chunks \in ChunksOrNumpy(n), edges \in BinEdges :
        c = MakeCall(Array(n, {}), by, chunks, FALSE, Kernel("count", FALSE, None),
                     edges, TRUE, 0, "mapreduce")

\* the scenarios of the test suite: labels a, b, c, f are 1, 2, 3, 6 and
\* the bin edges and labels are multiplied by ten
ScenarioLabels == <<1, 1, 3, 3, 3, 2, 2, 3, 3, 2, 2, 6>>

ScenarioBinEdges == <<10, 20, 40, 50>>

ScenarioBinLabels == <<10, 15, 19, 20, 30>>

ScenarioCalls ==
    {MakeCall(full(12, 1), ScenarioLabels, chunks, FALSE, Kernel("sum", FALSE, None),
              NoGroups, FALSE, None, "mapreduce") : chunks \in {<<>>, <<12>>, <<4, 4, 4>>}}
    \cup
    {MakeCall([full(12, 1) EXCEPT ![4] = NaN], ScenarioLabels, chunks, FALSE, k,
              NoGroups, FALSE, None, "mapreduce") :
        chunks \in {<<>>, <<4, 4, 4>>},
        k \in {Kernel("sum", TRUE, None), Kernel("sum", TRUE, 1), Kernel("sum", TRUE, 3)}}
    \cup
    {MakeCall(full(5, 1), ScenarioBinLabels, chunks, FALSE, Kernel("count", FALSE, None),
              ScenarioBinEdges, TRUE, 0, "mapreduce") : chunks \in {<<>>, <<2, 2, 1>>}}

\* the calls on arrays of up to MaxLen elements, and the scenarios
Init ==
    /\ \/ \E n \in 1..MaxLen : KernelCall(call, n) \/ BinCall(call, n) \/ MisalignedCall(call, n)
       \/ call \in ScenarioCalls
    /\ pc = "start"
    /\ inter = <<>>
    /\ cover = <<>>
    /\ result = NoResult

\* groupby_reduce raises before anything is reduced
Reject ==
    /\ pc = "start"
    /\ resolve_call(call).status # "ok"
    /\ pc' = "done"
    /\ result' = Failed(resolve_call(call).status)
    /\ UNCHANGED <<call, inter, cover>>

\* the pure numpy path: one chunk_reduce and the finalize step
NumpyReduce ==
    /\ pc = "start"
    /\ resolve_call(call).status = "ok"
    /\ call.chunks = <<>>
    /\ result' = numpy_reduce(call, resolve_call(call))
    /\ pc' = "done"
    /\ UNCHANGED <<call, inter, cover>>

\* groupby_agg's blockwise chunk step: chunk_reduce on every block
ChunkStage ==
    /\ pc = "start"
    /\ resolve_call(call).status = "ok"
    /\ call.chunks # <<>>
    /\ call.method = "mapreduce"
    /\ inter' = chunk_stage(call.array, call.by, call.chunks, call_agg(call),
                            resolve_call(call).expected_groups, call.isbin)
    /\ cover' = Tup([b \in 1..Len(call.chunks) |->
                    <<block_start(call.chunks, b), block_start(call.chunks, b) + call.chunks[b] - 1>>])
    /\ pc' = "chunked"
    /\ UNCHANGED <<call, result>>

\* one combine node of the tree: neighbouring intermediates i..j become one
Combine(i, j) ==
    /\ pc = "chunked"
    \* the node that takes all that is left is the root
    /\ j - i + 1 < Len(inter)
    /\ inter' = SubSeq(inter, 1, i - 1)
                  \o <<_npg_combine(SubSeq(inter, i, j), call_agg(call))>>
                  \o SubSeq(inter, j + 1, Len(inter))
    /\ cover' = SubSeq(cover, 1, i - 1) \o <<<<cover[i][1], cover[j][2]>>>>
                  \o SubSeq(cover, j + 1, Len(cover))
    /\ UNCHANGED <<call, pc, result>>

\* the root of the tree: _npg_aggregate combines what is left and finalizes
\* it, and the two outputs are extracted
Aggregate ==
    /\ pc = "chunked"
    /\ inter' = <<_npg_combine(inter, call_agg(call))>>
    /\ cover' = <<<<1, Len(call.array)>>>>
    /\ result' = extract_results(
                     _finalize_results(inter'[1], call_agg(call),
                                       expected_agg(resolve_call(call).expected_groups, call.isbin),
                                       resolve_call(call).fill_value, call.min_count),
                     expected_agg(resolve_call(call).expected_groups, call.isbin))
    /\ pc' = "done"
    /\ UNCHANGED call

Next ==
    \/ Reject
    \/ NumpyReduce
    \/ ChunkStage
    \/ \E i \in 1..Len(inter) : \E j \in i..Len(inter) : Combine(i, j)
    \/ Aggregate

Spec == Init /\ [][Next]_vars

-----------------------------------------------------------------------------
(* The strategies side by side: one call, reduced in one step by the         *)
(* strategy it names.                                                        *)
GroupLabelVals == {1, 2, 3, NaN}

Methods == {"mapreduce", "blockwise", "cohorts"}

\* expected_groups and fill_value as the caller gives them
GroupConfigs ==
    {<<NoGroups, None>>, <<(<<2, 1>>), None>>, <<(<<1, 3>>), -1>>, <<(<<1, 2, 3>>), -1>>}

GroupCall(c, n) ==
    \/ \E by \in SeqsOfLen(GroupLabelVals, n), chunks \in Chunkings(n),
          cfg \in GroupConfigs, method \in Methods :
          c = MakeCall(Array(n, {}), by, chunks, FALSE, Kernel("sum", FALSE, None),
                       cfg[1], FALSE, cfg[2], method)
    \/ \E by \in SeqsOfLen(GroupLabelVals, n), cfg \in GroupConfigs :
          c = MakeCall(Array(n, {}), by, <<>>, FALSE, Kernel("sum", FALSE, None),
                       cfg[1], FALSE, cfg[2], "mapreduce")
    \* the grouping array is chunked like the array
    \/ \E by \in SeqsOfLen(GroupLabelVals, n), chunks \in Chunkings(n),
          eg \in {NoGroups, <<1, 2>>}, method \in {"mapreduce", "blockwise"} :
          c = MakeCall(Array(n, {}), by, chunks, TRUE, Kernel("sum", FALSE, None),
                       eg, FALSE, None, method)

ScenarioGroupCalls ==
    {MakeCall(full(12, 1), ScenarioLabels, chunks, by_is_dask, Kernel("sum", FALSE, None),
              NoGroups, FALSE, None, method) :
        chunks \in {<<4, 4, 4>>}, by_is_dask \in BOOLEAN, method \in Methods}
    \cup
    {MakeCall(full(12, 1), ScenarioLabels, <<>>, FALSE, Kernel("sum", FALSE, None),
              NoGroups, FALSE, None, "mapreduce")}

InitGroups ==
    /\ \/ \E n \in 1..MaxLen : GroupCall(call, n)
       \/ call \in ScenarioGroupCalls
    /\ pc = "start"
    /\ inter = <<>>
    /\ cover = <<>>
    /\ result = NoResult

\* method="mapreduce" from the call to the computed result
MapReduce ==
    /\ pc = "start"
    /\ resolve_call(call).status = "ok"
    /\ call.chunks # <<>>
    /\ call.method = "mapreduce"
    /\ result' = groupby_reduce(call)
    /\ pc' = "done"
    /\ UNCHANGED <<call, inter, cover>>

\* method="blockwise": rechunk_for_blockwise, then every block by itself
Blockwise ==
    /\ pc = "start"
    /\ resolve_call(call).status = "ok"
    /\ call.chunks # <<>>
    /\ call.method = "blockwise"
    /\ result' = groupby_reduce(call)
    /\ pc' = "done"
    /\ UNCHANGED <<call, inter, cover>>

\* method="cohorts": every cohort by itself
Cohorts ==
    /\ pc = "start"
    /\ resolve_call(call).status = "ok"
    /\ call.chunks # <<>>
    /\ call.method = "cohorts"
    /\ result' = groupby_reduce(call)
    /\ pc' = "done"
    /\ UNCHANGED <<call, inter, cover>>

NextGroups ==
    \/ NumpyReduce
    \/ MapReduce
    \/ Blockwise
    \/ Cohorts

SpecGroups == InitGroups /\ [][NextGroups]_vars

-----------------------------------------------------------------------------
(* Chunk invariance.                                                         *)

\* the same data held in one single block
SingleBlock(c) == [c EXCEPT !.chunks = <<Len(c.array)>>]

\* some intermediates have been combined
Combined == Len(inter) < Len(call.chunks)

\* C1: whatever the partition into blocks and the shape of the combine tree,
\* a finished mapreduce call returns the groups and the values (or raises the
\* exception) of the same call on the data held in one block; for the
\* kernels whose chunk stage does not rest on an identity element (sum,
\* count, mean) they are those of the call on the unchunked array as well
ChunkInvariance ==
    (pc = "done" /\ call.chunks # <<>> /\ call.method = "mapreduce")
        => /\ result = groupby_reduce(SingleBlock(call))
           /\ call.func \notin {"min", "max"}
                 => result = groupby_reduce([call EXCEPT !.chunks = <<>>])

\* a finished call on MaxLen blocks with a missing label, two groups and a
\* NaN in the data
ChunkInvarianceWitness ==
    /\ pc = "done"
    /\ Len(call.chunks) = MaxLen
    /\ Combined
    /\ result.status = "ok"
    /\ Len(result.groups) = 2
    /\ \E i \in 1..Len(call.by) : isnull(call.by[i])
    /\ \E i \in 1..Len(call.array) : isnull(call.array[i])

-----------------------------------------------------------------------------
(* Sentinel isolation.                                                       *)

\* what element i is grouped under: its label, or the number of its interval
label_of(c, i) ==
    IF c.isbin THEN np_digitize(c.by[i], c.expected_groups) - 1 ELSE c.by[i]

\* the label is NaN, or lies below the first bin edge
is_missing(c, i) == IF c.isbin THEN label_of(c, i) = -1 ELSE isnull(c.by[i])

\* the elements lo..hi of the array that belong to group g, in order
members(c, lo, hi, g) ==
    Filter(SubSeq(c.array, lo, hi),
           Tup([i \in 1..(hi - lo + 1) |->
                   ~is_missing(c, lo + i - 1) /\ np_eq(label_of(c, lo + i - 1), g)]))

real_groups(c, lo, hi) == {label_of(c, i) : i \in {e \in lo..hi : ~is_missing(c, e)}}

\* intermediate k holds no missing bucket next to real groups, and every
\* channel of every group is the chunk kernel over that group's own elements
IsolatedAt(k) ==
    LET lo == cover[k][1]
        hi == cover[k][2]
        x == inter[k]
        agg == call_agg(call)
        real == real_groups(call, lo, hi)
    IN  /\ real = {} => x.groups = <<NaN>>
        /\ real # {} => /\ real \subseteq Range(x.groups)
                        /\ \A j \in 1..Len(x.groups) : ~isnull(x.groups[j])
        /\ \A ch \in 1..Len(agg.chunk) :
              /\ Len(x.intermediates[ch]) = Len(x.groups)
              /\ \A j \in 1..Len(x.groups) :
                    x.intermediates[ch][j] =
                        npg_kernel(agg.chunk[ch], members(call, lo, hi, x.groups[j]),
                                   agg.fill_intermediate[ch])

\* C3: after the chunk stage and after every combine, an element whose label
\* is missing is in no group's aggregate, in a block with real groups or
\* without, and the final result has no entry for the missing bucket
SentinelIsolation ==
    /\ pc \in {"chunked", "done"} => \A k \in 1..Len(inter) : IsolatedAt(k)
    /\ (pc = "done" /\ result.status = "ok") =>
          /\ Len(result.values) = Len(result.groups)
          /\ \A j \in 1..Len(result.groups) : ~isnull(result.groups[j])

\* a combined intermediate that covers a missing label next to a real group
SentinelIsolationWitness ==
    /\ pc = "chunked"
    /\ Combined
    /\ \E k \in 1..Len(inter) :
          /\ cover[k][1] < cover[k][2]
          /\ real_groups(call, cover[k][1], cover[k][2]) # {}
          /\ \E i \in cover[k][1]..cover[k][2] : is_missing(call, i)

-----------------------------------------------------------------------------
(* Binning.                                                                  *)

\* the elements with a valid value whose label lies in the interval
\* [edges[i], edges[i + 1])
in_interval(c, i) ==
    {e \in 1..Len(c.by) : /\ ~isnull(c.by[e])
                          /\ ~isnull(c.array[e])
                          /\ c.expected_groups[i] <= c.by[e]
                          /\ c.by[e] < c.expected_groups[i + 1]}

\* C6: a count over bin edges with fill_value 0 returns one entry per
\* interval, entry i counting the elements whose label is in
\* [edges[i], edges[i + 1]); chunked or not.  Edges 1, 2, 4, 5 over the
\* labels 1, 1.5, 1.9, 2, 3 (all ten times larger here) give 3, 2, 0
Binning ==
    (pc = "done" /\ call.isbin /\ call.func = "count" /\ call.fill_value = 0 /\ ~call.skipna)
        => /\ result.status = "ok"
           /\ result.groups = arange(Len(call.expected_groups) - 1)
           /\ result.values = Tup([i \in 1..(Len(call.expected_groups) - 1) |->
                                      Cardinality(in_interval(call, i))])
           /\ call.by = ScenarioBinLabels => result.values = <<3, 2, 0>>

\* a chunked count with a label below the first edge, a label beyond the
\* last edge and an interval without labels
BinningWitness ==
    /\ pc = "done"
    /\ call.isbin
    /\ Len(call.chunks) > 1
    /\ result.status = "ok"
    /\ \E e \in 1..Len(call.by) : call.by[e] < call.expected_groups[1]
    /\ \E e \in 1..Len(call.by) : call.by[e] >= call.expected_groups[Len(call.expected_groups)]
    /\ \E i \in 1..Len(result.values) : result.values[i] = 0
    /\ \E i \in 1..Len(result.values) : result.values[i] > 0

-----------------------------------------------------------------------------
(* min_count masking.                                                        *)

\* the non-NaN elements of group g
valid_members(c, g) ==
    Filter(members(c, 1, Len(c.array), g),
           Tup([i \in 1..Len(members(c, 1, Len(c.array), g)) |->
                   ~isnull(members(c, 1, Len(c.array), g)[i])]))

has_label(c) == \E i \in 1..Len(c.by) : ~isnull(c.by[i])

\* C7: sum with skipna and min_count = k gives NaN to every group with fewer
\* than k non-NaN elements and the sum of its non-NaN elements to every
\* other group; without min_count every group gets that sum
MinCountMasking ==
    (pc = "done" /\ call.func = "sum" /\ call.skipna /\ ~call.isbin /\ has_label(call))
        => /\ result.status = "ok"
           /\ result.groups = np_unique(Filter(call.by, Tup([i \in 1..Len(call.by) |-> ~isnull(call.by[i])])))
           /\ Len(result.values) = Len(result.groups)
           /\ \A j \in 1..Len(result.groups) :
                 result.values[j] =
                     IF call.min_count # None
                        /\ Len(valid_members(call, result.groups[j])) < call.min_count
                     THEN NaN
                     ELSE SeqSum(valid_members(call, result.groups[j]))

\* min_count = 2 with one group masked and one group summed
MinCountMaskingWitness ==
    /\ pc = "done"
    /\ call.func = "sum"
    /\ call.skipna
    /\ call.min_count = 2
    /\ result.status = "ok"
    /\ \E j \in 1..Len(result.values) : isnull(result.values[j])
    /\ \E j \in 1..Len(result.values) : ~isnull(result.values[j])

-----------------------------------------------------------------------------
(* The checks groupby_reduce makes before it reduces.                        *)

\* C12: a call whose array and grouping array differ in shape ends with
\* ValueError, whatever else is wrong with it, and no block is ever reduced
\* for it: no intermediate result and no partial result exists
AlignmentFirst ==
    Len(call.array) # Len(call.by)
        => /\ pc \in {"start", "done"}
           /\ inter = <<>>
           /\ pc = "start" => result = NoResult
           /\ pc = "done" => result = Failed("ValueError")

\* a rejected call on a chunked array whose other arguments would have
\* raised another exception
AlignmentFirstWitness ==
    /\ pc = "done"
    /\ Len(call.array) # Len(call.by)
    /\ Len(call.chunks) > 1
    /\ resolve_call([call EXCEPT !.by = SubSeq(call.by, 1, Len(call.array))]).status
           = "AssertionError"
    /\ result = Failed("ValueError")

\* the kernel the call resolves to is nansum
is_nansum(c) == c.func \in {"sum", "nansum"} /\ (c.skipna \/ c.func = "nansum")

\* C14: min_count > 1 is rejected with ValueError for every kernel but
\* nansum (nanprod), and min_count <= 1 makes no call fail that would be
\* accepted without min_count
MinCountAcceptance ==
    (pc = "done" /\ call.min_count # None)
        => /\ (call.min_count > 1 /\ ~is_nansum(call)) => result = Failed("ValueError")
           /\ (call.min_count <= 1 /\ resolve_call([call EXCEPT !.min_count = None]).status = "ok")
                 => result.status \notin {"ValueError", "AssertionError"}

\* the same without the kernels other than nansum at min_count <= 1
MinCountRejection ==
    (pc = "done" /\ call.min_count # None)
        => /\ (call.min_count > 1 /\ ~is_nansum(call)) => result = Failed("ValueError")
           /\ is_nansum(call) => result.status \notin {"ValueError", "AssertionError"}

-----------------------------------------------------------------------------
(* The strategies against each other and against the groups asked for.       *)

\* every group has all its elements in one block
whole_groups(c) ==
    \A i, j \in 1..Len(c.by) :
        np_eq(c.by[i], c.by[j]) => which_chunk(c.chunks)[i] = which_chunk(c.chunks)[j]

\* the labels never decrease and none is missing
sequential(c) ==
    /\ \A i \in 1..Len(c.by) : ~isnull(c.by[i])
    /\ \A i \in 1..(Len(c.by) - 1) : c.by[i] <= c.by[i + 1]

observed_groups(c) == np_unique(Filter(c.by, Tup([i \in 1..Len(c.by) |-> ~isnull(c.by[i])])))

\* the sum over the elements of group g, or fill_value when there is none
group_sum(c, g, fill_value) ==
    IF members(c, 1, Len(c.by), g) = <<>> THEN fill_value
    ELSE SeqSum(members(c, 1, Len(c.by), g))

\* C2: when every group is whole inside one block, the three strategies
\* return the same values for the same groups in the same order (checked
\* on the calls without expected_groups and without missing labels)
StrategyEquivalence ==
    (pc = "done" /\ call.chunks # <<>> /\ ~call.by_is_dask /\ whole_groups(call)
       /\ call.expected_groups = NoGroups /\ \A i \in 1..Len(call.by) : ~isnull(call.by[i]))
        => /\ result = groupby_reduce([call EXCEPT !.method = "mapreduce"])
           /\ result = groupby_reduce([call EXCEPT !.method = "blockwise"])
           /\ result = groupby_reduce([call EXCEPT !.method = "cohorts"])

\* the same for labels that never decrease and are never missing
StrategyEquivalenceSequential ==
    (pc = "done" /\ call.chunks # <<>> /\ ~call.by_is_dask /\ whole_groups(call)
       /\ sequential(call) /\ call.expected_groups = NoGroups)
        => /\ result = groupby_reduce([call EXCEPT !.method = "mapreduce"])
           /\ result = groupby_reduce([call EXCEPT !.method = "blockwise"])
           /\ result = groupby_reduce([call EXCEPT !.method = "cohorts"])

\* C4: with expected_groups given, every strategy returns expected_groups as
\* the groups, one value per expected group in that order, and fill_value
\* for an expected group the data does not hold
ExpectedGroupsOrder ==
    (pc = "done" /\ call.chunks # <<>> /\ call.expected_groups # NoGroups /\ ~call.isbin
       /\ (call.by_is_dask => call.method = "mapreduce"))
        => /\ result.status = "ok"
           /\ result.groups = call.expected_groups
           /\ result.values = Tup([j \in 1..Len(call.expected_groups) |->
                                      group_sum(call, call.expected_groups[j],
                                                resolve_call(call).fill_value)])

\* the same for method="mapreduce" only, on chunked arrays and on numpy arrays
ExpectedGroupsOrderMapReduce ==
    (pc = "done" /\ call.expected_groups # NoGroups /\ ~call.isbin /\ call.method = "mapreduce")
        => /\ result.status = "ok"
           /\ result.groups = call.expected_groups
           /\ result.values = Tup([j \in 1..Len(call.expected_groups) |->
                                      group_sum(call, call.expected_groups[j],
                                                resolve_call(call).fill_value)])

\* C5: without expected_groups the groups returned are the non-missing
\* labels of the data in ascending order, each value at the place of its
\* group, whether the grouping array is a numpy array or chunked; labels
\* a, a, c, c, c, b, b, c, c, b, b, f over ones give a, b, c, f and 2, 4, 5, 1
GroupsObserved ==
    (pc = "done" /\ call.expected_groups = NoGroups /\ ~call.isbin /\ has_label(call)
       /\ call.method = "mapreduce")
        => /\ result.status = "ok"
           /\ result.groups = observed_groups(call)
           /\ result.values = Tup([j \in 1..Len(observed_groups(call)) |->
                                      group_sum(call, observed_groups(call)[j], 0)])
           /\ call.by = ScenarioLabels =>
                 (result.groups = <<1, 2, 3, 6>> /\ result.values = <<2, 4, 5, 1>>)

\* the same for a numpy grouping array only
GroupsObservedNumpyBy ==
    (pc = "done" /\ call.expected_groups = NoGroups /\ ~call.isbin /\ has_label(call)
       /\ call.method = "mapreduce" /\ ~call.by_is_dask)
        => /\ result.status = "ok"
           /\ result.groups = observed_groups(call)
           /\ result.values = Tup([j \in 1..Len(observed_groups(call)) |->
                                      group_sum(call, observed_groups(call)[j], 0)])
           /\ call.by = ScenarioLabels =>
                 (result.groups = <<1, 2, 3, 6>> /\ result.values = <<2, 4, 5, 1>>)

-----------------------------------------------------------------------------
(* The planners and find_group_cohorts: call holds the labels and the        *)
(* chunks, result what the function returns.                                 *)
PlanLabelVals == {1, 2, 3, NaN}

\* the labels and the chunkings of test_rechunk_to_group_boundaries
TableLabels == <<1, 1, 1, 2, 2, 3, 3, 5, 5, 5>>

TableChunks ==
    {full(10, 1), full(5, 2), <<3, 3, 3, 1>>, <<3, 1, 1, 2, 1, 1, 1>>, <<3, 2, 2, 3>>,
     <<4, 4, 2>>, <<5, 5>>, <<6, 4>>, <<7, 3>>, <<8, 2>>, <<9, 1>>, <<10>>}

PlanInput(c, n) ==
    \E labels \in SeqsOfLen(PlanLabelVals, n), chunks \in Chunkings(n) :
        c = [labels |-> labels, chunks |-> chunks]

ScenarioPlanInputs ==
    {[labels |-> TableLabels, chunks |-> chunks] : chunks \in TableChunks}
    \cup {[labels |-> ScenarioLabels, chunks |-> <<4, 4, 4>>]}

\* force_new_chunk_at and chunksize as the caller of rechunk_for_cohorts gives them
ForceAt == {<<1>>, <<2, 3>>}

ChunkSizes == {None, 1, 2}

InitPlan ==
    /\ \/ \E n \in 1..MaxPlanLen : PlanInput(call, n)
       \/ call \in ScenarioPlanInputs
    /\ pc = "start"
    /\ inter = <<>>
    /\ cover = <<>>
    /\ result = NoResult

Returned(op, arg, status, out) == [op |-> op, arg |-> arg, status |-> status, out |-> out]

FindGroupCohorts(merge) ==
    /\ pc = "start"
    /\ result' = Returned("find_group_cohorts", merge, "ok",
                          find_group_cohorts(call.labels, call.chunks, merge))
    /\ pc' = "done"
    /\ UNCHANGED <<call, inter, cover>>

RechunkForBlockwise ==
    /\ pc = "start"
    /\ result' = Returned("rechunk_for_blockwise", None, "ok",
                          rechunk_for_blockwise(call.chunks, call.labels))
    /\ pc' = "done"
    /\ UNCHANGED <<call, inter, cover>>

RechunkForCohorts(force_new_chunk_at, chunksize) ==
    /\ pc = "start"
    /\ rechunk_for_cohorts_error(call.chunks, call.labels, force_new_chunk_at) = "ok"
    /\ result' = Returned("rechunk_for_cohorts", <<force_new_chunk_at, chunksize>>, "ok",
                          rechunk_for_cohorts(call.chunks, call.labels, force_new_chunk_at, chunksize))
    /\ pc' = "done"
    /\ UNCHANGED <<call, inter, cover>>

\* no label of force_new_chunk_at is present
RechunkForCohortsFails(force_new_chunk_at) ==
    /\ pc = "start"
    /\ rechunk_for_cohorts_error(call.chunks, call.labels, force_new_chunk_at) # "ok"
    /\ result' = Returned("rechunk_for_cohorts", <<force_new_chunk_at, None>>,
                          rechunk_for_cohorts_error(call.chunks, call.labels, force_new_chunk_at),
                          <<>>)
    /\ pc' = "done"
    /\ UNCHANGED <<call, inter, cover>>

NextPlan ==
    \/ \E merge \in BOOLEAN : FindGroupCohorts(merge)
    \/ RechunkForBlockwise
    \/ \E force_new_chunk_at \in ForceAt : \E chunksize \in ChunkSizes :
          RechunkForCohorts(force_new_chunk_at, chunksize)
    \/ \E force_new_chunk_at \in ForceAt : RechunkForCohortsFails(force_new_chunk_at)

SpecPlan == InitPlan /\ [][NextPlan]_vars

\* the blocks where label g occurs, the missing label like any other
blocks_of(labels, chunks, g) ==
    {which_chunk(chunks)[i] : i \in {e \in 1..Len(labels) : labels[e] = g}}

\* the groups of the labels: the labels that are not missing
present_groups(labels) == {labels[i] : i \in {e \in 1..Len(labels) : ~isnull(labels[e])}}

cohort_of(cohorts, g) == {k \in 1..Len(cohorts) : \E j \in 1..Len(cohorts[k]) : cohorts[k][j] = g}

\* the cohorts are pairwise disjoint, hold the groups and nothing else, and
\* put two groups together if and only if they occur in the same blocks
is_partition(labels, chunks, cohorts, groups) ==
    /\ \A k \in 1..Len(cohorts) : \A i, j \in 1..Len(cohorts[k]) :
          cohorts[k][i] = cohorts[k][j] => i = j
    /\ \A k, l \in 1..Len(cohorts) : k # l => Range(cohorts[k]) \cap Range(cohorts[l]) = {}
    /\ UNION {Range(cohorts[k]) : k \in 1..Len(cohorts)} = groups
    /\ \A g, h \in groups :
          cohort_of(cohorts, g) = cohort_of(cohorts, h)
              <=> blocks_of(labels, chunks, g) = blocks_of(labels, chunks, h)

\* C8: for every label array and chunking, find_group_cohorts with
\* merge=False returns a partition of the groups present by the blocks they
\* occur in, whether the missing label counts as a group or not
CohortPartition ==
    (pc = "done" /\ result.op = "find_group_cohorts" /\ ~result.arg)
        => \/ is_partition(call.labels, call.chunks, result.out, present_groups(call.labels))
           \/ is_partition(call.labels, call.chunks, result.out, Range(call.labels))

\* the same for label arrays without a missing label
CohortPartitionNoMissing ==
    (pc = "done" /\ result.op = "find_group_cohorts" /\ ~result.arg
       /\ \A i \in 1..Len(call.labels) : ~isnull(call.labels[i]))
        => is_partition(call.labels, call.chunks, result.out, present_groups(call.labels))

\* the blocks where a group of the cohort occurs
cohort_blocks(labels, chunks, cohort) ==
    UNION {blocks_of(labels, chunks, cohort[j]) : j \in {e \in 1..Len(cohort) : ~isnull(cohort[e])}}

\* C20: with merge=True no returned cohort has a block set that is a subset
\* of the block set of another returned cohort
CohortMerge ==
    (pc = "done" /\ result.op = "find_group_cohorts" /\ result.arg)
        => \A k, l \in 1..Len(result.out) :
              k # l => ~(cohort_blocks(call.labels, call.chunks, result.out[k])
                            \subseteq cohort_blocks(call.labels, call.chunks, result.out[l]))

\* the same for a cohort and the cohorts returned before it only
CohortMergeForward ==
    (pc = "done" /\ result.op = "find_group_cohorts" /\ result.arg)
        => \A k, l \in 1..Len(result.out) :
              k < l => ~(cohort_blocks(call.labels, call.chunks, result.out[l])
                            \subseteq cohort_blocks(call.labels, call.chunks, result.out[k]))

\* C9: the block sizes both planners return are strictly positive and sum to
\* the length of the axis
RechunkSizeConservation ==
    (pc = "done" /\ result.status = "ok"
       /\ result.op \in {"rechunk_for_blockwise", "rechunk_for_cohorts"})
        => /\ \A b \in 1..Len(result.out) : result.out[b] > 0
           /\ SeqSum(result.out) = Len(call.labels)

\* a planner has changed the chunks of an array of MaxPlanLen elements with
\* a missing label
RechunkSizeConservationWitness ==
    /\ pc = "done"
    /\ result.status = "ok"
    /\ result.op \in {"rechunk_for_blockwise", "rechunk_for_cohorts"}
    /\ Len(call.labels) = MaxPlanLen
    /\ result.out # call.chunks
    /\ Len(result.out) > 1
    /\ \E i \in 1..Len(call.labels) : isnull(call.labels[i])

\* the rows of test_rechunk_to_group_boundaries
TableExpected(inchunks) ==
    CASE inchunks \in {full(10, 1), full(5, 2), <<3, 1, 1, 2, 1, 1, 1>>, <<3, 2, 2, 3>>} -> <<3, 2, 2, 3>>
      [] inchunks = <<3, 3, 3, 1>> -> <<3, 2, 5>>
      [] inchunks = <<4, 4, 2>> -> <<3, 4, 3>>
      [] inchunks \in {<<5, 5>>, <<6, 4>>} -> <<5, 5>>
      [] inchunks \in {<<7, 3>>, <<8, 2>>} -> <<7, 3>>
      [] inchunks \in {<<9, 1>>, <<10>>} -> <<10>>

\* the positions after which a block of chunks ends, the last one left out
boundaries(chunks) == {np_cumsum(chunks)[b] : b \in 1..(Len(chunks) - 1)}

\* C10: for labels that never decrease, rechunk_for_blockwise puts every
\* block boundary between two groups, and the rows of the test table hold
GroupBoundaries ==
    (pc = "done" /\ result.op = "rechunk_for_blockwise"
       /\ (\A i \in 1..Len(call.labels) : ~isnull(call.labels[i]))
       /\ (\A i \in 1..(Len(call.labels) - 1) : call.labels[i] <= call.labels[i + 1]))
        => /\ SeqSum(result.out) = Len(call.labels)
           /\ \A p \in boundaries(result.out) : call.labels[p] # call.labels[p + 1]
           /\ (call.labels = TableLabels => result.out = TableExpected(call.chunks))

\* a boundary inside a group has been moved to the end of the group
GroupBoundariesWitness ==
    /\ pc = "done"
    /\ result.op = "rechunk_for_blockwise"
    /\ (\A i \in 1..(Len(call.labels) - 1) : call.labels[i] <= call.labels[i + 1])
    /\ Len(call.labels) = MaxPlanLen
    /\ \E p \in boundaries(call.chunks) : call.labels[p] = call.labels[p + 1]
    /\ Len(result.out) > 1

-----------------------------------------------------------------------------
(* reindex_ by itself: call holds the array, the group sets and the fill     *)
(* value, result what reindex_ returns or raises.                            *)
ReindexLabelVals == {1, 2, 3, NaN}

\* the sequences of n different elements of S
RECURSIVE DistinctSeqs(_, _)
DistinctSeqs(S, n) ==
    IF n = 0 THEN {<<>>}
    ELSE UNION {{Append(s, x) : x \in S \ Range(s)} : s \in DistinctSeqs(S, n - 1)}

FillValues == {None, 0, NaN}

\* an array with one entry per group of from_ (entry i is 10 * i), the
\* groups it has, the groups asked for and the fill value
ReindexInput(c, n) ==
    \E from_ \in DistinctSeqs(ReindexLabelVals, n), m \in 0..MaxLen, fill_value \in FillValues :
        \E to \in DistinctSeqs(ReindexLabelVals, m) :
            c = [array |-> Tup([i \in 1..n |-> 10 * i]), from_ |-> from_, to |-> to,
                 fill_value |-> fill_value]

InitReindex ==
    /\ \E n \in 0..MaxLen : ReindexInput(call, n)
    /\ pc = "start"
    /\ inter = <<>>
    /\ cover = <<>>
    /\ result = NoResult

Reindex ==
    /\ pc = "start"
    /\ reindex_error(call.array, call.from_, call.to, call.fill_value) = "ok"
    /\ result' = Returned("reindex_", None, "ok",
                          reindex_(call.array, call.from_, call.to, call.fill_value))
    /\ pc' = "done"
    /\ UNCHANGED <<call, inter, cover>>

ReindexRaises ==
    /\ pc = "start"
    /\ reindex_error(call.array, call.from_, call.to, call.fill_value) # "ok"
    /\ result' = Returned("reindex_", None,
                          reindex_error(call.array, call.from_, call.to, call.fill_value), <<>>)
    /\ pc' = "done"
    /\ UNCHANGED <<call, inter, cover>>

NextReindex ==
    \/ Reindex
    \/ ReindexRaises

SpecReindex == InitReindex /\ [][NextReindex]_vars

\* C11: reindexing an array onto the group set it already has returns the
\* array as it is and raises nothing, whatever the fill value, also when the
\* group set is the missing-group marker of an empty block
IdempotentReindex ==
    (pc = "done" /\ call.from_ = call.to)
        => (result.status = "ok" /\ result.out = call.array)

\* the same for group sets without the missing-group marker
IdempotentReindexNoMissing ==
    (pc = "done" /\ call.from_ = call.to /\ \A i \in 1..Len(call.from_) : ~isnull(call.from_[i]))
        => (result.status = "ok" /\ result.out = call.array)

\* C15: reindex_ raises ValueError exactly when a group asked for is not
\* among the groups the array has and no fill value is given, an array
\* without any group included, and raises nothing when every group asked
\* for is there
MissingFillValue ==
    pc = "done" =>
        LET absent == \E j \in 1..Len(call.to) : call.to[j] \notin Range(call.from_)
        IN  /\ (absent /\ call.fill_value = None) => result.status = "ValueError"
            /\ ~absent => result.status = "ok"

\* the same for arrays with a group, groups asked for that are not
\* missing, and at least one group asked for
MissingFillValueSomeGroups ==
    (pc = "done" /\ call.from_ # <<>> /\ call.to # <<>>
       /\ \A j \in 1..Len(call.to) : ~isnull(call.to[j]))
        => LET absent == \E j \in 1..Len(call.to) : call.to[j] \notin Range(call.from_)
           IN  /\ (absent /\ call.fill_value = None) => result.status = "ValueError"
               /\ ~absent => result.status = "ok"

-----------------------------------------------------------------------------
(* Grouping by several keys (xarray_reduce): by is a tuple of grouping       *)
(* arrays of the same length, factorized together into one flat code.        *)

\* np.prod
RECURSIVE np_prod(_)
np_prod(s) == IF s = <<>> THEN 1 ELSE Head(s) * np_prod(Tail(s))

\* the row-major flat index of the coordinates cs in an array of this shape
RECURSIVE ravel_one(_, _, _)
ravel_one(cs, shape, k) ==
    IF k = 0 THEN 0 ELSE ravel_one(cs, shape, k - 1) * shape[k] + cs[k]

\* np.ravel_multi_index(coords, shape), mode="raise", order="C"
ravel_multi_index(coords, shape) ==
    Tup([i \in 1..Len(coords[1]) |->
            ravel_one(Tup([k \in 1..Len(shape) |-> coords[k][i]]), shape, Len(shape))])

\* "invalid entry in coordinates array"
ravel_multi_index_error(coords, shape) ==
    IF \E k \in 1..Len(shape) : \E i \in 1..Len(coords[k]) :
           coords[k][i] < 0 \/ coords[k][i] >= shape[k]
    THEN "ValueError" ELSE "ok"

\* factorize_ for a tuple of two or more grouping arrays, none binned,
\* reduced along all their axes (offset_group is False)
factorize_tuple(by) ==
    LET fz == Tup([k \in 1..Len(by) |-> pd_factorize(by[k])])
        factorized == Tup([k \in 1..Len(by) |-> fz[k].idx])
        found_groups == Tup([k \in 1..Len(by) |-> fz[k].groups])
        grp_shape == Tup([k \in 1..Len(by) |-> Len(fz[k].groups)])
        ngroups == np_prod(grp_shape)
    IN  IF ravel_multi_index_error(factorized, grp_shape) # "ok"
        THEN [status |-> ravel_multi_index_error(factorized, grp_shape), group_idx |-> <<>>,
              found_groups |-> found_groups, grp_shape |-> grp_shape, ngroups |-> ngroups]
        ELSE [status |-> "ok",
              group_idx |-> LET idx == ravel_multi_index(factorized, grp_shape)
                            IN  Tup([i \in 1..Len(idx) |-> IF idx[i] = -1 THEN ngroups + 1 ELSE idx[i]]),
              found_groups |-> found_groups, grp_shape |-> grp_shape, ngroups |-> ngroups]

\* xarray_reduce for len(by) > 1: the keys are factorized eagerly, the flat
\* code is what groupby_reduce groups by, and the wrapper reindexes the
\* result to all the combinations of the groups found.
\* How wrapper ends: with the error of the factorization, of groupby_reduce
\* or of the reindexing, or "ok"
wrapper(c, f, r) ==
    IF f.status # "ok" THEN f.status
    ELSE IF r.status # "ok" THEN r.status
    ELSE reindex_error(r.values, r.groups, arange(np_prod(f.grp_shape)), c.fill_value)

\* lines 239-248: all groups need not be present. reindex here
wrapper_values(c, f, r) ==
    IF wrapper(c, f, r) # "ok" THEN <<>>
    ELSE reindex_(r.values, r.groups, arange(np_prod(f.grp_shape)), c.fill_value)

\* what is returned for the factorization f and the result r
reduce_flat(c, f, r) ==
    Returned("xarray_reduce", None, wrapper(c, f, r),
             [group_idx |-> f.group_idx, found_groups |-> f.found_groups,
              values |-> wrapper_values(c, f, r)])

\* lines 212-223 and 238: groupby_reduce grouped by the flat codes
reduce_factorized(c, f) ==
    reduce_flat(c, f, groupby_reduce(MakeCall(c.array, f.group_idx, c.chunks, FALSE,
                                              Kernel(c.func, FALSE, None), NoGroups, FALSE,
                                              c.fill_value, "mapreduce")))

xarray_reduce(c) == reduce_factorized(c, factorize_tuple(c.by))

KeyLabelVals == {1, 2, NaN}

\* a count over n ones, grouped by two keys; the first key may be missing
KeyCall(c, n) ==
    \E by1 \in SeqsOfLen(KeyLabelVals, n), by2 \in SeqsOfLen({1, 2}, n),
       chunks \in ChunksOrNumpy(n), fill_value \in {None, 0} :
        c = [array |-> full(n, 1), by |-> <<by1, by2>>, chunks |-> chunks,
             func |-> "count", fill_value |-> fill_value]

\* test_xarray_reduce_multiple_groupers: labels along y, labels2 along x,
\* both broadcast to (x, y) and raveled; the array chunked along x or not
ScenarioLabels2 == <<1, 2, 2, 1>>

ScenarioKeyCalls ==
    {[array |-> full(48, 1),
      by |-> <<Tup([i \in 1..48 |-> ScenarioLabels[((i - 1) % 12) + 1]]),
               Tup([i \in 1..48 |-> ScenarioLabels2[((i - 1) \div 12) + 1]])>>,
      chunks |-> chunks, func |-> "count", fill_value |-> None] : chunks \in {<<>>, <<24, 24>>}}

InitKeys ==
    /\ \/ \E n \in 1..MaxLen : KeyCall(call, n)
       \/ call \in ScenarioKeyCalls
    /\ pc = "start"
    /\ inter = <<>>
    /\ cover = <<>>
    /\ result = NoResult

XarrayReduce ==
    /\ pc = "start"
    /\ result' = xarray_reduce(call)
    /\ pc' = "done"
    /\ UNCHANGED <<call, inter, cover>>

NextKeys == XarrayReduce

SpecKeys == InitKeys /\ [][NextKeys]_vars

\* the number of different labels that come before the first occurrence of
\* the label of element i: its code in first-seen order
first_seen_code(s, i) ==
    Cardinality({s[j] : j \in {e \in 1..i : \A d \in 1..e : s[d] # s[i]}})

\* the labels of s in the order they are first seen
first_seen(s) ==
    LET firsts == {i \in 1..Len(s) : \A j \in 1..(i - 1) : s[j] # s[i]}
    IN  Tup([p \in 1..Cardinality(firsts) |->
                s[CHOOSE i \in firsts : Cardinality({j \in firsts : j < i}) = p - 1]])

\* every element has its row-major flat code, elements share a code exactly
\* when they agree on both keys, and the count of every pair of labels is
\* the number of elements that carry it
flat_codes_hold(c, r) ==
    LET by1 == c.by[1]
        by2 == c.by[2]
        n2 == Cardinality(Range(by2))
    IN  /\ r.status = "ok"
        /\ r.out.found_groups = <<first_seen(by1), first_seen(by2)>>
        /\ Len(r.out.group_idx) = Len(by1)
        /\ \A i \in 1..Len(by1) :
              r.out.group_idx[i] = first_seen_code(by1, i) * n2 + first_seen_code(by2, i)
        /\ \A i, j \in 1..Len(by1) :
              r.out.group_idx[i] = r.out.group_idx[j] <=> (by1[i] = by1[j] /\ by2[i] = by2[j])
        /\ Len(r.out.values) = Len(first_seen(by1)) * n2
        /\ \A p1 \in 1..Len(first_seen(by1)) : \A p2 \in 1..n2 :
              r.out.values[(p1 - 1) * n2 + p2] =
                  Cardinality({i \in 1..Len(by1) : by1[i] = first_seen(by1)[p1]
                                                    /\ by2[i] = first_seen(by2)[p2]})

\* C16: grouping by two keys gives every element the row-major flat code of
\* its two first-seen codes, and the count reports for every pair of labels
\* the number of elements carrying it; labels a, c, b, f and labels2 1, 2 of
\* the test give 4, 4, 10, 10, 8, 8, 2, 2
FlatCodes ==
    pc = "done"
        => /\ flat_codes_hold(call, result)
           /\ call \in ScenarioKeyCalls
                 => /\ result.out.found_groups = <<(<<1, 3, 2, 6>>), (<<1, 2>>)>>
                    /\ result.out.values = <<4, 4, 10, 10, 8, 8, 2, 2>>

\* the same when no label is missing and either every pair of labels occurs
\* or a fill value is given
FlatCodesAllPairs ==
    (pc = "done"
       /\ (\A i \in 1..Len(call.by[1]) : ~isnull(call.by[1][i]))
       /\ \/ call.fill_value # None
          \/ \A a \in Range(call.by[1]) : \A b \in Range(call.by[2]) :
                \E i \in 1..Len(call.by[1]) : call.by[1][i] = a /\ call.by[2][i] = b)
        => /\ flat_codes_hold(call, result)
           /\ call \in ScenarioKeyCalls
                 => /\ result.out.found_groups = <<(<<1, 3, 2, 6>>), (<<1, 2>>)>>
                    /\ result.out.values = <<4, 4, 10, 10, 8, 8, 2, 2>>

-----------------------------------------------------------------------------
(* The tree of one mapreduce call, for the kernels whose intermediates       *)
(* differ from their result: argmax and argmin, mean and min.                *)

\* the data of an arg-reduction: rising, falling, or all elements equal
ArgArrays(n) ==
    {Array(n, {}), Tup([i \in 1..n |-> 2 ^ (n - i)]), full(n, 1)}

TreeKernels == {Kernel("mean", FALSE, None), Kernel("min", FALSE, None)}

TreeCall(c, n) ==
    \/ \E array \in ArgArrays(n), by \in SeqsOfLen(LabelVals, n), chunks \in ChunksOrNumpy(n) :
          c = MakeCall(array, by, chunks, FALSE, Kernel("argmax", FALSE, None),
                       NoGroups, FALSE, None, "mapreduce")
    \/ \E by \in SeqsOfLen(LabelVals, n), chunks \in ChunksOrNumpy(n) :
          c = MakeCall(full(n, 1), by, chunks, FALSE, Kernel("argmin", FALSE, None),
                       NoGroups, FALSE, None, "mapreduce")
    \/ \E by \in SeqsOfLen(LabelVals, n), chunks \in ChunksOrNumpy(n), k \in TreeKernels :
          c = MakeCall(Array(n, {}), by, chunks, FALSE, k, NoGroups, FALSE, None, "mapreduce")
    \* by has one label more than the array has elements
    \/ \E chunks \in ChunksOrNumpy(n) :
          c = MakeCall(Array(n, {}), full(n + 1, 1), chunks, FALSE, Kernel("argmax", FALSE, None),
                       NoGroups, FALSE, None, "mapreduce")

InitTree ==
    /\ \E n \in 1..MaxLen : TreeCall(call, n)
    /\ pc = "start"
    /\ inter = <<>>
    /\ cover = <<>>
    /\ result = NoResult

SpecTree == InitTree /\ [][Next]_vars

-----------------------------------------------------------------------------
(* Arg-reduction across blocks.                                              *)

\* the largest (argmax) or smallest (argmin) of the values xs
best_of(func, xs) ==
    npg_kernel(IF func = "argmax" THEN "max" ELSE "min", xs, None)

\* intermediate k of an arg-reduction: the index of every group is a position
\* of the whole array, inside what the intermediate covers, of an element of
\* the group that attains the group's extreme there, next to that value; an
\* intermediate without a real group holds the fill values
ArgIndexAt(k) ==
    LET lo == cover[k][1]
        hi == cover[k][2]
        x == inter[k]
        agg == call_agg(call)
        real == real_groups(call, lo, hi)
    IN  IF real = {}
        THEN /\ x.groups = <<NaN>>
             /\ x.intermediates[1] = <<agg.fill_intermediate[1]>>
             /\ x.intermediates[2] = <<agg.fill_intermediate[2]>>
        ELSE /\ x.groups = SortedSeq(real)
             /\ Len(x.intermediates[2]) = Len(x.groups)
             /\ \A j \in 1..Len(x.groups) :
                   LET p == x.intermediates[2][j] + 1
                   IN  /\ p \in lo..hi
                       /\ np_eq(call.by[p], x.groups[j])
                       /\ call.array[p] = best_of(call.func, members(call, lo, hi, x.groups[j]))
                       /\ x.intermediates[1][j] = call.array[p]

\* C19: for argmax and argmin, after the chunk stage and after any sequence
\* of combines, the index of each group is the original position, in the
\* whole array, of an element of the group attaining the group's max or min,
\* and a block without a real group is left unmapped; the final result
\* reports these positions
ArgReduction ==
    (call.func \in ArgKernels /\ call.chunks # <<>>) =>
        /\ pc \in {"chunked", "done"} => \A k \in 1..Len(inter) : ArgIndexAt(k)
        /\ (pc = "done" /\ result.status = "ok" /\ real_groups(call, 1, Len(call.array)) # {}) =>
              /\ result.groups = inter[1].groups
              /\ result.values = inter[1].intermediates[2]

\* a combined intermediate of an arg-reduction that starts after the first
\* block and whose winner is its last element: the index is neither the
\* position in the block nor the position among the concatenated
\* intermediates; the first block has no real group
ArgReductionWitness ==
    /\ call.func \in ArgKernels
    /\ pc = "chunked"
    /\ Len(call.chunks) = 3
    /\ \E k \in 1..Len(inter) :
          /\ cover[k][1] >= 2
          /\ cover[k][2] > cover[k][1]
          /\ real_groups(call, cover[k][1], cover[k][2]) # {}
          /\ \E j \in 1..Len(inter[k].groups) : inter[k].intermediates[2][j] = cover[k][2] - 1
    /\ \E k \in 1..Len(inter) : inter[k].groups = <<NaN>>

-----------------------------------------------------------------------------
(* Combiner group reconciliation.                                            *)

\* the real groups of the intermediates xs
real_of(xs) ==
    {g \in UNION {Range(xs[b].groups) : b \in 1..Len(xs)} : ~isnull(g)}

\* what the intermediate x holds for group g in channel ch, or the
\* intermediate fill value of the channel when x lacks the group
contribution(x, agg, ch, g) ==
    IF \E j \in 1..Len(x.groups) : x.groups[j] = g
    THEN x.intermediates[ch][FirstIndexOf(x.groups, g)]
    ELSE agg.fill_intermediate[ch]

\* the channels of out are those of xs combined group by group, an
\* intermediate that lacks a group contributing the intermediate fill value;
\* the index of an arg-reduction is the one that came with the winning value
channels_combined(xs, agg, out) ==
    \A ch \in 1..Len(agg.combine) :
        /\ Len(out.intermediates[ch]) = Len(out.groups)
        /\ \A j \in 1..Len(out.groups) :
              LET g == out.groups[j]
              IN  IF agg.reduction_type = "argreduce" /\ ch = 2
                  THEN \E b \in 1..Len(xs) :
                          /\ contribution(xs[b], agg, 1, g) = out.intermediates[1][j]
                          /\ contribution(xs[b], agg, 2, g) = out.intermediates[2][j]
                  ELSE out.intermediates[ch][j] =
                          npg_kernel(agg.combine[ch],
                                     Tup([b \in 1..Len(xs) |-> contribution(xs[b], agg, ch, g)]),
                                     agg.fill_intermediate[ch])

\* the neighbouring intermediates i..j of the state
some_inputs(i, j) == SubSeq(inter, i, j)

-----------------------------------------------------------------------------
(* Stage ordering in mapreduce.                                              *)

\* the intermediates cover the array from the first element to the last,
\* one after the other: every block's chunk result is in one of them
covers_array ==
    /\ Len(cover) = Len(inter)
    /\ cover # <<>>
    /\ cover[1][1] = 1
    /\ cover[Len(cover)][2] = Len(call.array)
    /\ \A k \in 1..(Len(cover) - 1) : cover[k + 1][1] = cover[k][2] + 1

\* intermediate k is not finalized: it has the channels of the chunk stage
\* and, for a plain reduction, each holds the chunk kernel over the elements
\* covered (for a mean: their sum and their number)
unfinalized(k) ==
    /\ Len(inter[k].intermediates) = Len(call_agg(call).chunk)
    /\ call_agg(call).reduction_type = "reduce" => IsolatedAt(k)

\* the values of a mean are the sums of the root divided by its counts, and
\* those of the other kernels are the channel the finalize step picks
finalized_from_root ==
    LET x == inter[1]
    IN  /\ result.status = "ok"
        /\ result.groups = x.groups
        /\ result.values = (IF call.func = "mean"
                            THEN Tup([j \in 1..Len(x.groups) |->
                                         truediv(x.intermediates[1][j], x.intermediates[2][j])])
                            ELSE IF call.func \in ArgKernels THEN x.intermediates[2]
                            ELSE x.intermediates[1])

\* C18: in a mapreduce call nothing is combined or finalized before the
\* chunk results exist; while the tree is being combined, every block's
\* chunk result is in one of the intermediates, none of them is finalized
\* and there is no result; the result is there once the tree has one root
\* over the whole array, and it is the finalize step of that root
StageOrdering ==
    (call.chunks # <<>> /\ resolve_call(call).status = "ok") =>
        /\ pc = "start" => (inter = <<>> /\ result = NoResult)
        /\ pc = "chunked" =>
              /\ result = NoResult
              /\ covers_array
              /\ \A k \in 1..Len(inter) : unfinalized(k)
        /\ result # NoResult =>
              /\ pc = "done"
              /\ cover = <<<<1, Len(call.array)>>>>
              /\ Len(inter) = 1
              /\ unfinalized(1)
              /\ real_groups(call, 1, Len(call.array)) # {} => finalized_from_root

\* a finished mean over three blocks, one group in all of them: the mean of
\* the group is not the mean of the means of any two levels
StageOrderingWitness ==
    /\ pc = "done"
    /\ call.func = "mean"
    /\ Len(call.chunks) = 3
    /\ result.status = "ok"
    /\ \E j \in 1..Len(result.groups) :
          /\ Len(members(call, 1, Len(call.array), result.groups[j])) = 3
          /\ result.values[j] = truediv(7, 3)

-----------------------------------------------------------------------------
(* method="blockwise" and what it refuses: a sum and an argmax under every   *)
(* strategy, the grouping array a numpy array or chunked, expected_groups    *)
(* given or not.                                                             *)
BlockwiseKernels == {Kernel("sum", FALSE, None), Kernel("argmax", FALSE, None)}

BlockwiseCall(c, n) ==
    \/ \E by \in SeqsOfLen(LabelVals, n), chunks \in Chunkings(n), k \in BlockwiseKernels,
          by_is_dask \in BOOLEAN, eg \in {NoGroups, <<1, 2>>},
          method \in {"mapreduce", "blockwise"} :
          c = MakeCall(Array(n, {}), by, chunks, by_is_dask, k, eg, FALSE, None, method)
    \/ \E by \in SeqsOfLen(LabelVals, n), chunks \in Chunkings(n) :
          c = MakeCall(Array(n, {}), by, chunks, FALSE, Kernel("sum", FALSE, None),
                       NoGroups, FALSE, None, "cohorts")
    \/ \E by \in SeqsOfLen(LabelVals, n), k \in BlockwiseKernels :
          c = MakeCall(Array(n, {}), by, <<>>, FALSE, k, NoGroups, FALSE, None, "blockwise")

InitBlockwise ==
    /\ \E n \in 1..MaxLen : BlockwiseCall(call, n)
    /\ pc = "start"
    /\ inter = <<>>
    /\ cover = <<>>
    /\ result = NoResult

SpecBlockwise == InitBlockwise /\ [][NextGroups]_vars

\* the call ended in a configuration error
failed_fast == result.status \in {"NotImplementedError", "ValueError"}

\* expected_groups is not given and cannot be taken from the grouping array
expected_groups_unknown(c) == resolve_call(c).expected_groups = NoGroups

\* C13: a blockwise call on a chunked array ends in a configuration error,
\* nothing reduced, when expected_groups is unknown, the grouping array is
\* chunked or the kernel is an arg-reduction, and is accepted otherwise
BlockwiseFailsFast ==
    (pc = "done" /\ call.method = "blockwise" /\ call.chunks # <<>>) =>
        /\ inter = <<>>
        /\ failed_fast <=>
              (expected_groups_unknown(call) \/ call.by_is_dask \/ call.func \in ArgKernels)

\* the same for the kernels that are not arg-reductions
BlockwiseFailsFastReduce ==
    (pc = "done" /\ call.method = "blockwise" /\ call.chunks # <<>> /\ call.func \notin ArgKernels) =>
        /\ inter = <<>>
        /\ failed_fast <=> (expected_groups_unknown(call) \/ call.by_is_dask)

\* a blockwise arg-reduction is refused only for what any blockwise call is
\* refused for
BlockwiseArgReduction ==
    (pc = "done" /\ call.method = "blockwise" /\ call.chunks # <<>> /\ call.func \in ArgKernels) =>
        (failed_fast <=> (expected_groups_unknown(call) \/ call.by_is_dask))

-----------------------------------------------------------------------------
(* The boundaries the planners emit.                                         *)

\* the labels never decrease and none is missing
sorted_labels(labels) ==
    /\ \A i \in 1..Len(labels) : ~isnull(labels[i])
    /\ \A i \in 1..(Len(labels) - 1) : labels[i] <= labels[i + 1]

\* the 0-based index of the first and of the last element of the group at
\* 0-based index c
first_index(labels, c) ==
    CHOOSE f \in 0..c : labels[f + 1] = labels[c + 1] /\ \A e \in 0..(f - 1) : labels[e + 1] # labels[c + 1]

last_index(labels, c) ==
    CHOOSE l \in c..(Len(labels) - 1) :
        labels[l + 1] = labels[c + 1] /\ \A e \in (l + 1)..(Len(labels) - 1) : labels[e + 1] # labels[c + 1]

\* whichever of the first index of the group at c and its last index plus one
\* is nearer to c
snapped(labels, c) ==
    IF Abs(c - first_index(labels, c)) < Abs(c - last_index(labels, c))
    THEN first_index(labels, c)
    ELSE last_index(labels, c) + 1

\* the 0-based indexes where a block of chunks starts, and the end of the axis
block_starts(chunks) == {0} \cup {np_cumsum(chunks)[b] : b \in 1..Len(chunks)}

\* the old block ends, 0-based, that fall inside a group
ends_inside(labels, chunks) ==
    {p - 1 : p \in {q \in boundaries(chunks) : labels[q] = labels[q + 1]}}

\* C21: for labels that never decrease, every old block boundary inside a
\* group is snapped to the nearer of the first index of that group and its
\* last index plus one, whatever the chunking
SnappingRule ==
    (pc = "done" /\ result.op = "rechunk_for_blockwise" /\ sorted_labels(call.labels))
        => \A c \in ends_inside(call.labels, call.chunks) :
              snapped(call.labels, c) \in block_starts(result.out)

\* no two blocks of chunks end in the same group
one_end_per_group(labels, chunks) ==
    \A b, d \in 1..Len(chunks) :
        b # d => labels[np_cumsum(chunks)[b]] # labels[np_cumsum(chunks)[d]]

\* the same for the chunkings where every block ends in a group of its own
SnappingRuleOneEndPerGroup ==
    (pc = "done" /\ result.op = "rechunk_for_blockwise" /\ sorted_labels(call.labels)
       /\ one_end_per_group(call.labels, call.chunks))
        => \A c \in ends_inside(call.labels, call.chunks) :
              snapped(call.labels, c) \in block_starts(result.out)

\* a boundary inside a group has been snapped to the first index of the group
SnappingRuleOneEndPerGroupWitness ==
    /\ pc = "done"
    /\ result.op = "rechunk_for_blockwise"
    /\ sorted_labels(call.labels)
    /\ one_end_per_group(call.labels, call.chunks)
    /\ \E c \in ends_inside(call.labels, call.chunks) :
          /\ snapped(call.labels, c) = first_index(call.labels, c)
          /\ snapped(call.labels, c) > 0

\* the 0-based positions whose label is in force_new_chunk_at
forcing_positions(labels, force_new_chunk_at) ==
    {i - 1 : i \in {e \in 1..Len(labels) : np_contains(force_new_chunk_at, labels[e])}}

\* C22: in the block sizes rechunk_for_cohorts computes a new block starts
\* at every position whose label is in force_new_chunk_at and at every old
\* chunk boundary
BoundaryForcing ==
    (pc = "done" /\ result.op = "rechunk_for_cohorts" /\ result.status = "ok")
        => /\ forcing_positions(call.labels, result.arg[1]) \subseteq block_starts(result.out)
           /\ block_starts(call.chunks) \subseteq block_starts(result.out)

\* a block starts at a forcing position inside an old block, another at an
\* old boundary whose label is not a forcing one and that has a forcing
\* label right after it
BoundaryForcingWitness ==
    /\ pc = "done"
    /\ result.op = "rechunk_for_cohorts"
    /\ result.status = "ok"
    /\ forcing_positions(call.labels, result.arg[1]) \ block_starts(call.chunks) # {}
    /\ \E p \in block_starts(call.chunks) \ forcing_positions(call.labels, result.arg[1]) :
          /\ p > 0
          /\ p + 1 \in forcing_positions(call.labels, result.arg[1])

\* the nominal chunksize of a call of rechunk_for_cohorts
nominal_chunksize(chunks, chunksize) ==
    IF chunksize = None THEN np_median_int(chunks) ELSE chunksize

\* the 0-based index where block b of chunks starts
start_of(chunks, b) == SeqSum(SubSeq(chunks, 1, b - 1))

\* block b is longer than c: the position after its last element holds a
\* forcing label, at most c \div 2 positions after the block reached length c
ends_at_close_forcing(labels, force_new_chunk_at, chunks, b, c) ==
    /\ start_of(chunks, b) + chunks[b] \in forcing_positions(labels, force_new_chunk_at)
    /\ chunks[b] - c <= c \div 2

covers_once(cohorts, groups) ==
    /\ \A k \in 1..Len(cohorts) : \A i, j \in 1..Len(cohorts[k]) :
          cohorts[k][i] = cohorts[k][j] => i = j
    /\ \A k, l \in 1..Len(cohorts) : k # l => Range(cohorts[k]) \cap Range(cohorts[l]) = {}
    /\ UNION {Range(cohorts[k]) : k \in 1..Len(cohorts)} = groups

\* C30: the cohorts find_group_cohorts returns with merge=True are pairwise
\* disjoint and their union is the set of groups of the labels
MergedPartition ==
    (pc = "done" /\ result.op = "find_group_cohorts" /\ result.arg)
        => covers_once(result.out, present_groups(call.labels))

\* the same with the missing label counted as a group
MergedPartitionWithMissing ==
    (pc = "done" /\ result.op = "find_group_cohorts" /\ result.arg)
        => covers_once(result.out, Range(call.labels))

\* the same for label arrays without a missing label
MergedPartitionNoMissing ==
    (pc = "done" /\ result.op = "find_group_cohorts" /\ result.arg
       /\ \A i \in 1..Len(call.labels) : ~isnull(call.labels[i]))
        => covers_once(result.out, present_groups(call.labels))

\* whatever the labels, every group is in exactly one merged cohort
MergedPartitionOfGroups ==
    (pc = "done" /\ result.op = "find_group_cohorts" /\ result.arg)
        => \A g \in present_groups(call.labels) :
              \E k \in 1..Len(result.out) :
                 /\ cohort_of(result.out, g) = {k}
                 /\ \A i, j \in 1..Len(result.out[k]) :
                       (result.out[k][i] = g /\ result.out[k][j] = g) => i = j

-----------------------------------------------------------------------------
(* The count channel from groupby_reduce to _finalize_results: call holds    *)
(* the kernel, fill_value and min_count, inter the intermediate result of    *)
(* the tracked descriptor, cover what _finalize_results did with the counts. *)
FinalizeKernels == {"sum", "nansum", "max", "mean", "nanmean"}

FinalizeCall(c, n) ==
    \E array \in FewArrays(n), by \in SeqsOfLen(LabelVals, n), func \in FinalizeKernels,
       fill_value \in {None, -1}, min_count \in {None, 1, 2}, expected_groups \in {NoGroups, <<1, 2>>} :
        c = [array |-> array, by |-> by, func |-> func, fill_value |-> fill_value,
             min_count |-> min_count, expected_groups |-> expected_groups]

InitFinalize ==
    /\ \E n \in 1..MaxLen : FinalizeCall(call, n)
    /\ pc = "start"
    /\ inter = <<>>
    /\ cover = <<>>
    /\ result = NoResult

\* the descriptor groupby_reduce hands to groupby_agg
tracked_agg(c) == track_counts(aggregations(c.func), c.fill_value, c.min_count)

\* groupby_reduce appends the count channel and the array is reduced with
\* the chunk kernels of the descriptor
TrackCounts ==
    /\ pc = "start"
    /\ inter' = <<chunk_reduce(call.array, call.by, tracked_agg(call).chunk, NoGroups,
                               tracked_agg(call).fill_intermediate, FALSE, FALSE)>>
    /\ pc' = "tracked"
    /\ UNCHANGED <<call, cover, result>>

FinalizeResults ==
    /\ pc = "tracked"
    /\ result' = _finalize_results(inter[1], tracked_agg(call), call.expected_groups,
                                   call.fill_value, call.min_count)
    /\ cover' = [taken  |-> counts_taken(tracked_agg(call), call.fill_value, call.min_count),
                 read   |-> counts_read(tracked_agg(call), call.min_count),
                 inputs |-> Len(finalize_inputs(inter[1], tracked_agg(call), call.fill_value,
                                                call.min_count))]
    /\ pc' = "done"
    /\ UNCHANGED <<call, inter>>

NextFinalize == TrackCounts \/ FinalizeResults

SpecFinalize == InitFinalize /\ [][NextFinalize]_vars

\* groupby_reduce has appended the count channel
counts_appended == Len(inter[1].intermediates) = Len(aggregations(call.func).chunk) + 1

\* what is said of _finalize_results: the mask is applied only with the
\* counts taken from the end of the intermediates, the counts taken were
\* appended, and agg.finalize is given the channels of the kernel only
count_channel_consistent ==
    /\ cover.read => cover.taken
    /\ cover.taken => counts_appended
    /\ aggregations(call.func).finalize # "none" =>
          cover.inputs = Len(aggregations(call.func).chunk)
    /\ result.status # "UnboundLocalError"

\* C28: whether agg.finalize is present or not, fill_value None or not and
\* min_count None or not, _finalize_results masks only with a count channel
\* taken from the end of the intermediates, gives agg.finalize the other
\* intermediates only and reads no count channel that was not appended
CountChannel ==
    pc = "done" => count_channel_consistent

\* the same when agg.finalize is absent or fill_value is not None
CountChannelWithFill ==
    (pc = "done" /\ (aggregations(call.func).finalize = "none" \/ call.fill_value # None))
        => count_channel_consistent

\* the count channel is appended exactly when fill_value or min_count is given
CountChannelAppended ==
    pc # "start" => (counts_appended <=> (call.fill_value # None \/ call.min_count # None))

\* a mean has been masked with the counts taken from the end
CountChannelWithFillWitness ==
    /\ pc = "done"
    /\ aggregations(call.func).finalize # "none"
    /\ cover.taken
    /\ cover.read
    /\ result.status = "ok"
    /\ \E j \in 1..Len(result.values) : result.values[j] = call.fill_value

-----------------------------------------------------------------------------
(* factorize_ in offset mode: the grouping array has two dimensions and is   *)
(* reduced along the last one.  A 2-D array is the sequence of its rows.     *)
ravel(rows) == Concat(rows)

\* group_idx.reshape(by[0].shape) for the codes pd.factorize gives by.ravel()
codes_of(by) ==
    Tup([r \in 1..Len(by) |->
            Tup([i \in 1..Len(by[r]) |-> pd_factorize(ravel(by)).idx[(r - 1) * Len(by[1]) + i]])])

\* offset_labels without the line that keeps -1
offset_labels_unmasked(labels) ==
    LET ngroups == SetMax(Range(ravel(labels))) + 1
    IN  [offset  |-> Tup([r \in 1..Len(labels) |->
                             Tup([i \in 1..Len(labels[r]) |-> labels[r][i] + (r - 1) * ngroups])]),
         ngroups |-> ngroups,
         size    |-> Len(labels) * ngroups]

\* offset_labels: -1 indicates NaNs, preserve these
offset_labels(labels) ==
    LET ngroups == SetMax(Range(ravel(labels))) + 1
    IN  [offset  |-> Tup([r \in 1..Len(labels) |->
                             Tup([i \in 1..Len(labels[r]) |->
                                     IF labels[r][i] = -1 THEN -1
                                     ELSE labels[r][i] + (r - 1) * ngroups])]),
         ngroups |-> ngroups,
         size    |-> Len(labels) * ngroups]

\* the lines below with the sentinel of a 1-D grouping array
factorize_offset_flat_sentinel(by, o) ==
    [group_idx    |-> Tup([e \in 1..Len(ravel(o.offset)) |->
                              IF ravel(o.offset)[e] = -1 THEN o.ngroups + 1 ELSE ravel(o.offset)[e]]),
     groups       |-> pd_factorize(ravel(by)).groups,
     ngroups      |-> o.ngroups,
     size         |-> o.size,
     offset_group |-> TRUE,
     nan_sentinel |-> o.ngroups + 1]

\* lines 337-355 for offset_group = True, o being what offset_labels returns
factorize_offset_from(by, o) ==
    [group_idx    |-> Tup([e \in 1..Len(ravel(o.offset)) |->
                              IF ravel(o.offset)[e] = -1 THEN o.size + 1 ELSE ravel(o.offset)[e]]),
     groups       |-> pd_factorize(ravel(by)).groups,
     ngroups      |-> o.ngroups,
     size         |-> o.size,
     offset_group |-> TRUE,
     nan_sentinel |-> o.size + 1]

factorize_offset(by) == factorize_offset_from(by, offset_labels(codes_of(by)))

\* lines 343-355 for a 1-D grouping array: size is None
factorize_flat(by) ==
    [group_idx    |-> factorize_(by, NoGroups, FALSE).group_idx,
     groups       |-> factorize_(by, NoGroups, FALSE).groups,
     ngroups      |-> factorize_(by, NoGroups, FALSE).ngroups,
     size         |-> None,
     offset_group |-> FALSE,
     nan_sentinel |-> factorize_(by, NoGroups, FALSE).nan_sentinel]

\* the number of rows and the row length of the 2-D grouping arrays
MaxRows == 2

MaxRowLen == 2

Grids(rows, n) == SeqsOfLen(SeqsOfLen(LabelVals, n), rows)

\* call.by is a 1-D grouping array (ndim = 1) or a 2-D one (ndim = 2)
InitFactorize ==
    /\ \/ \E n \in 1..MaxLen : \E by \in SeqsOfLen(LabelVals, n) : call = [by |-> by, ndim |-> 1]
       \/ \E rows \in 1..MaxRows, n \in 1..MaxRowLen :
             \E by \in Grids(rows, n) : call = [by |-> by, ndim |-> 2]
    /\ pc = "start"
    /\ inter = <<>>
    /\ cover = <<>>
    /\ result = NoResult

\* factorize_((by,), axis=-1) for a 1-D by
FactorizeFlat ==
    /\ pc = "start"
    /\ call.ndim = 1
    /\ result' = Returned("factorize_", None, "ok", factorize_flat(call.by))
    /\ pc' = "done"
    /\ UNCHANGED <<call, inter, cover>>

\* factorize_((by,), axis=-1) for a 2-D by
FactorizeOffset ==
    /\ pc = "start"
    /\ call.ndim = 2
    /\ result' = Returned("factorize_", None, "ok", factorize_offset(call.by))
    /\ pc' = "done"
    /\ UNCHANGED <<call, inter, cover>>

\* offset_labels on the codes of a 2-D by
OffsetLabels ==
    /\ pc = "start"
    /\ call.ndim = 2
    /\ result' = Returned("offset_labels", None, "ok", offset_labels(codes_of(call.by)))
    /\ pc' = "done"
    /\ UNCHANGED <<call, inter, cover>>

NextFactorize == FactorizeFlat \/ FactorizeOffset \/ OffsetLabels

SpecFactorize == InitFactorize /\ [][NextFactorize]_vars

\* the labels of call.by in the order of group_idx
flat_by == IF call.ndim = 1 THEN call.by ELSE ravel(call.by)

\* every missing label has the code sentinel and no other label has it
reserved(group_idx, sentinel) ==
    \A e \in 1..Len(flat_by) : isnull(flat_by[e]) <=> group_idx[e] = sentinel

\* C25: factorize_ replaces every missing code by one reserved sentinel,
\* ngroups when not in offset mode and size + 1 in offset mode, that no real
\* group is assigned
SentinelValue ==
    (pc = "done" /\ result.op = "factorize_")
        => /\ result.out.nan_sentinel =
                 IF result.out.offset_group THEN result.out.size + 1 ELSE result.out.ngroups
           /\ reserved(result.out.group_idx, result.out.nan_sentinel)

\* the same with the sentinel ngroups + 1 when not in offset mode
SentinelValuePlusOne ==
    (pc = "done" /\ result.op = "factorize_")
        => /\ result.out.nan_sentinel =
                 IF result.out.offset_group THEN result.out.size + 1 ELSE result.out.ngroups + 1
           /\ reserved(result.out.group_idx, result.out.nan_sentinel)

\* in offset mode a missing label of the second row has been given the
\* sentinel, which a group of that row would have with the sentinel of a
\* 1-D array
SentinelValuePlusOneWitness ==
    /\ pc = "done"
    /\ result.op = "factorize_"
    /\ result.out.offset_group
    /\ Len(call.by) = 2
    /\ \E i \in 1..Len(call.by[2]) : isnull(call.by[2][i])
    /\ \E e \in 1..Len(flat_by) : result.out.group_idx[e] = result.out.ngroups + 1

\* a 1-D array with a missing label and two groups has been factorized
SentinelValueFlatReached ==
    /\ pc = "done"
    /\ result.op = "factorize_"
    /\ ~result.out.offset_group
    /\ result.out.ngroups = 2
    /\ \E e \in 1..Len(flat_by) : isnull(flat_by[e])

\* the positions (row, column) of a 2-D array
positions(rows) == {<<r, i>> : r \in 1..Len(rows), i \in 1..Len(rows[1])}

\* C26: offset_labels maps code c of row r (counted from 0) to
\* c + r * ngroups, so two elements of real groups get the same offset code
\* if and only if they are in the same row and have the same code, every
\* such code is in [0, size), and a missing element (-1) stays missing
OffsetMode ==
    (pc = "done" /\ result.op = "offset_labels")
        => LET labels == codes_of(call.by)
               offset == result.out.offset
           IN  /\ \A p \in positions(labels) :
                     IF labels[p[1]][p[2]] = -1 THEN offset[p[1]][p[2]] = -1
                     ELSE /\ offset[p[1]][p[2]] = labels[p[1]][p[2]] + (p[1] - 1) * result.out.ngroups
                          /\ offset[p[1]][p[2]] >= 0
                          /\ offset[p[1]][p[2]] < result.out.size
               /\ \A p, q \in positions(labels) :
                     (labels[p[1]][p[2]] # -1 /\ labels[q[1]][q[2]] # -1)
                         => (offset[p[1]][p[2]] = offset[q[1]][q[2]]
                                <=> (p[1] = q[1] /\ labels[p[1]][p[2]] = labels[q[1]][q[2]]))

\* the second row holds a missing label and a label of the first row
OffsetModeWitness ==
    /\ pc = "done"
    /\ result.op = "offset_labels"
    /\ Len(call.by) = 2
    /\ \E i \in 1..Len(call.by[2]) : isnull(call.by[2][i])
    /\ \E i, j \in 1..Len(call.by[1]) :
          /\ ~isnull(call.by[1][i])
          /\ call.by[1][i] = call.by[2][j]
          /\ result.out.offset[1][i] # result.out.offset[2][j]
    /\ result.out.ngroups = 2

-----------------------------------------------------------------------------
(* groupby_agg with split_out > 1: the chunk step reindexes every block to   *)
(* expected_groups, split_blocks cuts the group axis of every block result,  *)
(* and every range of groups is reduced by a tree of its own.                *)

\* np.ceil(ngroups / split_out)
ceil_div(n, s) == (n + s - 1) \div s

\* dask's normalize_chunks(size, (n,))[0]: blocks of size elements, the rest last
normalize_chunks(size, n) ==
    IF n = 0 THEN <<0>>
    ELSE full(n \div size, size) \o (IF n % size = 0 THEN <<>> ELSE <<n % size>>)

\* line 761
group_chunks_of(ngroups, split_out) == normalize_chunks(ceil_div(ngroups, split_out), ngroups)

\* line 762: idx = tuple(np.cumsum((0,) + group_chunks))
split_idx(ngroups, split_out) == <<0>> \o np_cumsum(group_chunks_of(ngroups, split_out))

\* lines 850-854 and 765-773: the exception the split step raises ("ok":
\* none); idx[j + 1] is read for every j in range(split_out)
split_error(expected_groups, split_out) ==
    IF expected_groups = NoGroups THEN "NotImplementedError"
    ELSE IF Len(split_idx(Len(expected_groups), split_out)) < split_out + 1 THEN "IndexError"
    ELSE "ok"

\* _split_groups with slicer = slice(lo, hi)
_split_groups(array, lo, hi) ==
    [groups        |-> SubSeq(array.groups, lo + 1, hi),
     intermediates |-> Tup([k \in 1..Len(array.intermediates) |->
                               SubSeq(array.intermediates[k], lo + 1, hi)])]

\* split_blocks: piece j of every block, for every j in range(split_out)
split_blocks(applied, split_out, idx) ==
    Tup([j \in 1..split_out |->
            Tup([i \in 1..Len(applied) |-> _split_groups(applied[i], idx[j], idx[j + 1])])])

\* lines 825-848 for split_out > 1: reindex=True, expected_groups passed on
split_chunk_stage(array, by, chunks, agg, expected_groups) ==
    Tup([b \in 1..Len(chunks) |->
            chunk_reduce(block_of(array, chunks, b), block_of(by, chunks, b), agg.chunk,
                         expected_groups, agg.fill_intermediate, TRUE, FALSE)])

\* lines 876-896: _tree_reduce along the axis only: the tree of range j
\* takes piece j of every block; expected_agg is None
subtree_aggregates(pieces, agg, fill_value, min_count) ==
    Tup([j \in 1..Len(pieces) |-> _npg_aggregate(pieces[j], agg, NoGroups, fill_value, min_count)])

\* lines 943-985: the output chunks side by side, the groups are expected_groups
split_outputs(fins, expected_groups) == extract_results(blockwise_concat(fins), expected_groups)

SplitGroups == {NoGroups, <<1>>, <<1, 2>>, <<1, 2, 3>>, <<1, 2, 3, 4, 5>>}

SplitOuts == {2, 3, 4}

SplitCall(c, n) ==
    \E by \in SeqsOfLen(LabelVals, n), chunks \in Chunkings(n), func \in {"sum", "mean"},
       expected_groups \in SplitGroups, split_out \in SplitOuts :
        c = [array |-> Array(n, {}), by |-> by, chunks |-> chunks, by_is_dask |-> FALSE,
             func |-> func, skipna |-> FALSE, min_count |-> None,
             expected_groups |-> expected_groups, isbin |-> FALSE, fill_value |-> -1,
             method |-> "mapreduce", split_out |-> split_out]

InitSplit ==
    /\ \E n \in 1..MaxLen : SplitCall(call, n)
    /\ pc = "start"
    /\ inter = <<>>
    /\ cover = <<>>
    /\ result = NoResult

\* groupby_agg raises while it builds the graph
SplitFails ==
    /\ pc = "start"
    /\ split_error(call.expected_groups, call.split_out) # "ok"
    /\ result' = Failed(split_error(call.expected_groups, call.split_out))
    /\ pc' = "done"
    /\ UNCHANGED <<call, inter, cover>>

\* the chunk step, applied being what it computes, and the split tasks;
\* cover holds the index ranges
SplitBlocks(applied) ==
    /\ pc = "start"
    /\ split_error(call.expected_groups, call.split_out) = "ok"
    /\ chunk_stage_error(applied) = "ok"
    /\ inter' = split_blocks(applied, call.split_out,
                             split_idx(Len(call.expected_groups), call.split_out))
    /\ cover' = Tup([j \in 1..call.split_out |->
                       <<split_idx(Len(call.expected_groups), call.split_out)[j],
                         split_idx(Len(call.expected_groups), call.split_out)[j + 1]>>])
    /\ pc' = "split"
    /\ UNCHANGED <<call, result>>

\* chunk_reduce raises on some block
SplitChunkFails(applied) ==
    /\ pc = "start"
    /\ split_error(call.expected_groups, call.split_out) = "ok"
    /\ chunk_stage_error(applied) # "ok"
    /\ result' = Failed(chunk_stage_error(applied))
    /\ pc' = "done"
    /\ UNCHANGED <<call, inter, cover>>

\* the trees of the ranges, one by one, and the outputs side by side
SplitAggregate ==
    /\ pc = "split"
    /\ result' = split_outputs(subtree_aggregates(inter, call_agg(call), call.fill_value,
                                                  call.min_count),
                               call.expected_groups)
    /\ pc' = "done"
    /\ UNCHANGED <<call, inter, cover>>

NextSplit ==
    \/ SplitFails
    \/ SplitBlocks(split_chunk_stage(call.array, call.by, call.chunks, call_agg(call),
                                     call.expected_groups))
    \/ SplitChunkFails(split_chunk_stage(call.array, call.by, call.chunks, call_agg(call),
                                         call.expected_groups))
    \/ SplitAggregate

SpecSplit == InitSplit /\ [][NextSplit]_vars

\* the ranges are split_out contiguous, pairwise disjoint index ranges that
\* cover 0..ngroups-1
split_ranges(ranges, split_out, ngroups) ==
    /\ Len(ranges) = split_out
    /\ ranges[1][1] = 0
    /\ ranges[Len(ranges)][2] = ngroups
    /\ \A j \in 1..Len(ranges) : ranges[j][1] <= ranges[j][2]
    /\ \A j \in 1..(Len(ranges) - 1) : ranges[j][2] = ranges[j + 1][1]

\* C23: for every split_out > 1 and every expected_groups the split step
\* cuts the group axis of every chunk result into split_out contiguous,
\* pairwise disjoint index ranges that cover expected_groups, without error,
\* each range being reduced from its own pieces only
SplitPartition ==
    (call.expected_groups # NoGroups /\ pc # "start" /\ result.status # "ValueError")
        => /\ result.status # "IndexError"
           /\ split_ranges(cover, call.split_out, Len(call.expected_groups))
           /\ \A j \in 1..Len(inter) : \A i \in 1..Len(inter[j]) :
                 inter[j][i].groups = SubSeq(call.expected_groups, cover[j][1] + 1, cover[j][2])

\* the same when ceil(ngroups / split_out) divides expected_groups into
\* split_out ranges and the chunk step raises nothing; the call then returns
\* one value for every expected group
SplitPartitionEnoughGroups ==
    (call.expected_groups # NoGroups /\ pc # "start"
       /\ Len(group_chunks_of(Len(call.expected_groups), call.split_out)) = call.split_out)
        => /\ result.status # "IndexError"
           /\ pc = "split" \/ result.status = "ok" =>
                 /\ split_ranges(cover, call.split_out, Len(call.expected_groups))
                 /\ \A j \in 1..Len(inter) : \A i \in 1..Len(inter[j]) :
                       inter[j][i].groups =
                           SubSeq(call.expected_groups, cover[j][1] + 1, cover[j][2])
           /\ result.status = "ok" =>
                 /\ result.groups = call.expected_groups
                 /\ Len(result.values) = Len(call.expected_groups)

\* five groups have been reduced in three ranges over two blocks
SplitPartitionEnoughGroupsWitness ==
    /\ pc = "done"
    /\ result.status = "ok"
    /\ Len(call.expected_groups) = 5
    /\ call.split_out = 3
    /\ Len(call.chunks) = 2
    /\ \E i, k \in 1..Len(call.by) : ~isnull(call.by[i]) /\ ~isnull(call.by[k]) /\ call.by[i] # call.by[k]

-----------------------------------------------------------------------------
(* The shapes of the intermediate results: the chunk functions on every      *)
(* block, with reindex on or off and with or without expected_groups, and    *)
(* the combine step on what they return.                                     *)
ShapeGroups == {NoGroups, <<1, 2>>, <<3, 1>>}

ShapeCall(c, n) ==
    \E array \in FewArrays(n), by \in SeqsOfLen(LabelVals, n), chunks \in Chunkings(n),
       func \in {"nanmean", "argmax"}, expected_groups \in ShapeGroups, reindex \in BOOLEAN :
        c = [array |-> array, by |-> by, chunks |-> chunks, func |-> func,
             expected_groups |-> expected_groups, reindex |-> reindex]

InitShape ==
    /\ \E n \in 1..MaxLen : ShapeCall(call, n)
    /\ pc = "start"
    /\ inter = <<>>
    /\ cover = <<>>
    /\ result = NoResult

\* the descriptor of the call, the count channel appended
shape_agg(c) == track_counts(aggregations(c.func), 0, None)

\* _get_chunk_reduction(agg.reduction_type) on block b
shape_task(c, agg, b) ==
    IF agg.reduction_type = "argreduce"
    THEN chunk_argreduce_reindex(block_of(c.array, c.chunks, b),
                                 block_of(arange(Len(c.array)), c.chunks, b),
                                 block_of(c.by, c.chunks, b), agg.chunk, c.expected_groups,
                                 agg.fill_intermediate, c.reindex, FALSE)
    ELSE chunk_reduce(block_of(c.array, c.chunks, b), block_of(c.by, c.chunks, b), agg.chunk,
                      c.expected_groups, agg.fill_intermediate, c.reindex, FALSE)

\* the chunk step on every block
shape_stage(c, agg) == Tup([b \in 1..Len(c.chunks) |-> shape_task(c, agg, b)])

\* every channel is as long as the groups
same_shape(r) == \A k \in 1..Len(r.intermediates) : Len(r.intermediates[k]) = Len(r.groups)

\* chunk_reduce or chunk_argreduce on every block, applied being what the
\* blocks give
ShapeChunks(applied) ==
    /\ pc = "start"
    /\ (shape_agg(call).reduction_type = "reduce" => chunk_stage_error(applied) = "ok")
    /\ inter' = applied
    /\ pc' = "chunked"
    /\ UNCHANGED <<call, cover, result>>

\* chunk_reduce raises on some block
ShapeChunkFails(applied) ==
    /\ pc = "start"
    /\ shape_agg(call).reduction_type = "reduce"
    /\ chunk_stage_error(applied) # "ok"
    /\ result' = Failed(chunk_stage_error(applied))
    /\ pc' = "done"
    /\ UNCHANGED <<call, inter, cover>>

\* _npg_combine on the results of the blocks, when they are intermediate results
ShapeCombine ==
    /\ pc = "chunked"
    /\ \A b \in 1..Len(inter) : same_shape(inter[b])
    /\ inter' = <<_npg_combine(inter, shape_agg(call))>>
    /\ pc' = "done"
    /\ UNCHANGED <<call, cover, result>>

NextShape ==
    \/ ShapeChunks(shape_stage(call, shape_agg(call)))
    \/ ShapeChunkFails(shape_stage(call, shape_agg(call)))
    \/ ShapeCombine

SpecShape == InitShape /\ [][NextShape]_vars

\* what is said of an intermediate result of the call: the channels are as
\* long as the groups, and with reindex=True a chunk result is as long as
\* expected_groups
shape_invariant(r) ==
    /\ same_shape(r)
    /\ (pc = "chunked" /\ call.reindex /\ call.expected_groups # NoGroups)
          => Len(r.groups) = Len(call.expected_groups)

\* C24: every result of chunk_reduce, chunk_argreduce or _npg_combine, with
\* reindex on or off, with or without expected_groups, for blocks with or
\* without missing labels, has channels as long as its groups, and with
\* reindex=True both are as long as expected_groups
IntermediateShape ==
    \A b \in 1..Len(inter) : shape_invariant(inter[b])

\* the same for chunk_reduce and _npg_combine, and for chunk_argreduce
\* without reindex or without expected_groups
IntermediateShapeReduce ==
    (shape_agg(call).reduction_type = "reduce" \/ ~call.reindex \/ call.expected_groups = NoGroups)
        => \A b \in 1..Len(inter) : shape_invariant(inter[b])

\* chunk_reduce has reindexed a block with a missing label to expected_groups
IntermediateShapeReduceWitness ==
    /\ pc = "chunked"
    /\ call.reindex
    /\ call.expected_groups # NoGroups
    /\ shape_agg(call).reduction_type = "reduce"
    /\ \E b \in 1..Len(inter) :
          /\ \E i \in 1..Len(block_of(call.by, call.chunks, b)) :
                isnull(block_of(call.by, call.chunks, b)[i])
          /\ inter[b].groups = call.expected_groups
          /\ \E j \in 1..Len(inter[b].groups) : inter[b].intermediates[2][j] > 0

-----------------------------------------------------------------------------
(* The catalog across calls.  inter is the heap: the Aggregation object of   *)
(* every catalog name, and under "copy" the object copy.deepcopy makes for   *)
(* the call; cover is the object the call's variable reduction refers to,    *)
(* pc the number of calls made.                                              *)

\* the object of the catalog for a kernel name: the record and its dtype,
\* "none" while no dtype is set
catalog_object(name) == [agg |-> aggregations(name), dtype |-> "none"]

\* the object the call works on shares nothing with its source: the mutant
\* of copy.deepcopy
same_object(name) == name

\* line 1128: copy.deepcopy(getattr(aggregations, func)) is a new object
copy_deepcopy(name) == "copy"

\* _get_fill_value: the sentinels of the catalog become values of the dtype,
\* for an integer dtype its largest and its smallest value
_get_fill_value(dtype, fv) ==
    IF dtype = "int" /\ fv = INF THEN INF - 1
    ELSE IF dtype = "int" /\ fv = NINF THEN NINF + 1
    ELSE fv

\* lines 1134-1140 on the object reduction refers to
set_dtype_and_fill(obj, array_dtype) ==
    LET dtype == IF obj.dtype = "none" THEN array_dtype ELSE obj.dtype
    IN  [agg   |-> [obj.agg EXCEPT
                       !.fill_intermediate = Tup([k \in 1..Len(@) |-> _get_fill_value(dtype, @[k])]),
                       !.fill_final = _get_fill_value(dtype, @)],
         dtype |-> dtype]

\* lines 1142-1149: the fill value the call goes on with
resolved_fill(obj, c) ==
    IF c.min_count # None THEN NaN
    ELSE IF c.fill_value = None THEN obj.agg.fill_final
    ELSE c.fill_value

\* line 1156 for numpy arrays, lines 1212-1216 for dask arrays
path_object(obj, c) ==
    IF c.min_count # None /\ c.func \notin {"nansum", "nanprod"} THEN obj
    ELSE IF ~c.is_dask THEN [obj EXCEPT !.agg.finalize = "none"]
    ELSE [obj EXCEPT !.agg = track_counts(@, resolved_fill(obj, c), c.min_count)]

\* the heap with the object at address to made from the one at address from
heap_copy(heap, from, to) ==
    [a \in DOMAIN heap \cup {to} |-> IF a = to THEN heap[from] ELSE heap[a]]

\* the heap after the call c whose reduction is the object at address r
heap_after(heap, r, c) ==
    [heap EXCEPT ![r] = path_object(set_dtype_and_fill(@, c.dtype), c)]

CatalogCalls ==
    [func : KnownReductions, dtype : {"int", "float"}, fill_value : {None, -1},
     min_count : {None, 1}, is_dask : BOOLEAN]

MaxCalls == 3

InitCatalog ==
    /\ inter = [name \in KnownReductions |-> catalog_object(name)]
    /\ cover = None
    /\ call = None
    /\ pc = 0
    /\ result = NoResult

\* one call of groupby_reduce with a kernel name, from the copy of the
\* descriptor to the last change made to it
CallByName(c) ==
    /\ pc < MaxCalls
    /\ call' = c
    /\ cover' = copy_deepcopy(c.func)
    /\ inter' = heap_after(heap_copy(inter, c.func, copy_deepcopy(c.func)),
                           copy_deepcopy(c.func), c)
    /\ pc' = pc + 1
    /\ UNCHANGED result

NextCatalog == \E c \in CatalogCalls : CallByName(c)

SpecCatalog == InitCatalog /\ [][NextCatalog]_vars

\* C27: after any sequence of calls of groupby_reduce with kernel names,
\* whatever their dtype, fill_value and min_count, the chunk kernels, the
\* combine kernels, the fill values, the dtype and finalize of every catalog
\* record are what they were before the first call
CatalogUnchanged ==
    \A name \in KnownReductions : inter[name] = catalog_object(name)

\* after a call that appended the count channel, a call of the same kernel
\* has cleared finalize and set the dtype and the fill values
CatalogUnchangedWitness ==
    /\ pc >= 2
    /\ call.func = "nanmax"
    /\ ~call.is_dask
    /\ call.dtype = "int"
    /\ inter[cover] # catalog_object(call.func)
    /\ inter[cover].agg.fill_intermediate # aggregations(call.func).fill_intermediate
    /\ inter[cover].dtype = "int"

=============================================================================
